---- MODULE Spec2Model ----
(***************************************************************************)
(* Unicorn device manager: the generation-indexed device tree              *)
(* (unicorn/platform.rs), the driver launcher and the DeviceService        *)
(* handlers (unicorn/mod.rs, unicorn/device.rs), the server entry points   *)
(* (unicorn/server.rs) and the two logic-device registries                 *)
(* (unicorn/device.rs register_logic, unicorn/logic.rs).                   *)
(*                                                                         *)
(* Option<T> is a sequence of length <= 1: None is << >>, Some(x) is <<x>>.*)
(* Vec indices are 0-based in the source and 1-based here: slot i of a Vec *)
(* is element i + 1 of the sequence.                                       *)
(***************************************************************************)
EXTENDS Integers, Sequences, FiniteSets, TLC

VARIABLES
    tree,       \* UnicornManager::tree / a DeviceTree under its own API
    pids,       \* UnicornManager::pids: driver badge -> DeviceId
    config,     \* UnicornManager::config: the manifest, a list of DriverEntry
    pc,         \* "new", "serving", "failed" for the server; "tree", "logic",
                \* "lds" when a component is driven on its own
    cspace,     \* number of CSpace slots handed out by cspace_mgr.alloc
    mmio_caps,  \* UnicornManager::mmio_caps: base_addr -> slot
    irq_caps,   \* UnicornManager::irq_caps: irq_num -> slot
    reg,        \* UnicornManager's logic registry and its counters
    lds,        \* a LogicDeviceService (unicorn/logic.rs)
    issued,     \* history: the (id, desc) pairs DeviceTree::insert returned
    last        \* history: the last operation, its inputs and its outcome

vars == <<tree, pids, config, pc, cspace, mmio_caps, irq_caps, reg, lds, issued, last>>

----------------------------------------------------------------------------
(* Bounds of the model *)

MaxNodes == 3       \* nodes the manager's tree may hold
MaxTreeNodes == 3   \* nodes of a tree driven through its own API
MaxReport == 2      \* elements of one reported subtree
MaxPid == 2         \* pids the process manager hands out: 1..MaxPid
MaxSlots == 3       \* CSpace slots handed out
MaxLogic == 3       \* entries of a logic registry

\* usize::MAX, the marker mount_subtree reads as "under the mount point";
\* the largest integer TLC represents stands for it.
USIZE_MAX == 2147483647

None == << >>
Some(x) == <<x>>

----------------------------------------------------------------------------
(* Values *)

DeviceId(i, g) == [index |-> i, generation |-> g]

MMIORegion(b, s) == [base_addr |-> b, size |-> s]

DeviceDesc(n, c, m, q) == [name |-> n, compatible |-> c, mmio |-> m, irq |-> q]

\* Descriptors drivers report. "acpi" is also the name of a root platform node.
DescPool ==
    { DeviceDesc("virtio0", <<"virtio-net">>, <<MMIORegion(784, 4097)>>, <<32>>),
      DeviceDesc("acpi", <<"pci">>, << >>, << >>) }

DeviceDescNode(p, d) == [parent |-> p, desc |-> d]

DeviceNode(parent, id, desc) ==
    [ parent |-> parent, children |-> << >>, id |-> id, desc |-> desc,
      state |-> "Ready", logical_devices |-> << >> ]

Ok(t, v) == [tree |-> t, ok |-> TRUE, err |-> "Ok", val |-> v]
Err(t, e) == [tree |-> t, ok |-> FALSE, err |-> e, val |-> << >>]

----------------------------------------------------------------------------
(* DeviceTree, unicorn/platform.rs *)

TreeNew == [nodes |-> << >>, generations |-> << >>, free_head |-> None, root |-> None]

get_node(t, id) ==
    IF id.index < Len(t.nodes)
       /\ t.nodes[id.index + 1] # None
       /\ t.nodes[id.index + 1][1].id.generation = id.generation
    THEN t.nodes[id.index + 1]
    ELSE None

get_node_mut(t, id) ==
    IF id.index < Len(t.generations)
       /\ t.generations[id.index + 1] = id.generation
       /\ id.index < Len(t.nodes)
    THEN t.nodes[id.index + 1]
    ELSE None

contains(t, id) == get_node(t, id) # None

\* The part of insert after the parent has been validated.
InsertNode(t, parent_id, desc) ==
    LET reuse  == t.free_head # None
        idx    == IF reuse THEN t.free_head[1] ELSE Len(t.nodes)
        nodes1 == IF reuse THEN t.nodes ELSE Append(t.nodes, None)
        gens1  == IF reuse THEN t.generations ELSE Append(t.generations, 0)
        id     == DeviceId(idx, gens1[idx + 1])
        nodes2 == [nodes1 EXCEPT ![idx + 1] = Some(DeviceNode(parent_id, id, desc))]
        linked ==
            IF parent_id # None
               /\ parent_id[1].index < Len(nodes2)
               /\ nodes2[parent_id[1].index + 1] # None
               /\ nodes2[parent_id[1].index + 1][1].id.generation = parent_id[1].generation
            THEN [nodes2 EXCEPT ![parent_id[1].index + 1] =
                     Some([@[1] EXCEPT !.children = Append(@, id)])]
            ELSE nodes2
        root1  == IF parent_id = None /\ t.root = None THEN Some(id) ELSE t.root
    IN  Ok([nodes |-> linked, generations |-> gens1, free_head |-> None, root |-> root1], id)

\* A slip: the slot's generation is bumped after the handle was made.
InsertBumpGeneration(t, parent_id, desc) ==
    LET r == InsertNode(t, parent_id, desc)
    IN  IF parent_id # None /\ ~contains(t, parent_id[1])
        THEN Err(t, "InvalidArgs")
        ELSE [r EXCEPT !.tree.generations[r.val.index + 1] = @ + 1]

\* A slip: the parent handle is not validated.
InsertUnchecked(t, parent_id, desc) == InsertNode(t, parent_id, desc)

\* A slip: the node is written but never linked into its parent's children.
InsertUnlinked(t, parent_id, desc) ==
    IF parent_id # None /\ ~contains(t, parent_id[1])
    THEN Err(t, "InvalidArgs")
    ELSE LET r == InsertNode(t, None, desc)
         IN  [r EXCEPT !.tree.nodes[r.val.index + 1] = Some([@[1] EXCEPT !.parent = parent_id]),
                       !.tree.root = IF parent_id = None THEN @ ELSE t.root]

insert(t, parent_id, desc) ==
    IF parent_id # None /\ ~contains(t, parent_id[1])
    THEN Err(t, "InvalidArgs")
    ELSE InsertNode(t, parent_id, desc)

\* A slip: an unknown parent index falls back to the mount point.
RECURSIVE MountFromLenient(_, _, _, _, _, _)
MountFromLenient(t, mount_point, nodes, i, index_map, made) ==
    IF i > Len(nodes)
    THEN Ok(t, made)
    ELSE LET nd == nodes[i]
             parent_id == IF nd.parent \in DOMAIN index_map THEN index_map[nd.parent]
                          ELSE mount_point
             r == insert(t, Some(parent_id), nd.desc)
         IN  IF ~r.ok
             THEN [r EXCEPT !.val = made]
             ELSE MountFromLenient(r.tree, mount_point, nodes, i + 1,
                                   (i - 1) :> r.val @@ index_map,
                                   Append(made, [id |-> r.val, desc |-> nd.desc]))

\* A slip: an element that names an earlier element as parent is hung
\* under the mount point all the same.
RECURSIVE MountFromFlat(_, _, _, _, _, _)
MountFromFlat(t, mount_point, nodes, i, index_map, made) ==
    IF i > Len(nodes)
    THEN Ok(t, made)
    ELSE LET nd == nodes[i]
         IN  IF nd.parent # USIZE_MAX /\ nd.parent \notin DOMAIN index_map
             THEN [Err(t, "InvalidArgs") EXCEPT !.val = made]
             ELSE LET r == insert(t, Some(mount_point), nd.desc)
                  IN  IF ~r.ok
                      THEN [r EXCEPT !.val = made]
                      ELSE MountFromFlat(r.tree, mount_point, nodes, i + 1,
                                         (i - 1) :> r.val @@ index_map,
                                         Append(made, [id |-> r.val, desc |-> nd.desc]))

\* The loop of mount_subtree from element i on; index_map maps the indices of
\* the elements mounted so far to their ids, made lists the (id, desc) pairs.
RECURSIVE MountFrom(_, _, _, _, _, _)
MountFrom(t, mount_point, nodes, i, index_map, made) ==
    IF i > Len(nodes)
    THEN Ok(t, made)
    ELSE LET nd == nodes[i]
         IN  IF nd.parent # USIZE_MAX /\ nd.parent \notin DOMAIN index_map
             THEN [Err(t, "InvalidArgs") EXCEPT !.val = made]
             ELSE LET parent_id == IF nd.parent = USIZE_MAX THEN mount_point
                                   ELSE index_map[nd.parent]
                      r == insert(t, Some(parent_id), nd.desc)
                  IN  IF ~r.ok
                      THEN [r EXCEPT !.val = made]
                      ELSE MountFrom(r.tree, mount_point, nodes, i + 1,
                                     (i - 1) :> r.val @@ index_map,
                                     Append(made, [id |-> r.val, desc |-> nd.desc]))

mount_subtree(t, mount_point, nodes) ==
    IF ~contains(t, mount_point)
    THEN Err(t, "InvalidArgs")
    ELSE MountFrom(t, mount_point, nodes, 1, << >>, << >>)

----------------------------------------------------------------------------
(* Driver matching and launching, unicorn/mod.rs *)

DriverEntry(n, c) == [name |-> n, compatible |-> c]

InSeq(x, s) == \E k \in DOMAIN s : s[k] = x

\* match_driver from manifest entry k on: the first entry whose compatible
\* list holds the device name or one of the device's compatible strings.
RECURSIVE MatchFrom(_, _, _, _)
MatchFrom(cfg, k, dev_name, dev_compat) ==
    IF k > Len(cfg) THEN None
    ELSE IF InSeq(dev_name, cfg[k].compatible) THEN Some(cfg[k].name)
    ELSE IF \E j \in DOMAIN dev_compat : InSeq(dev_compat[j], cfg[k].compatible)
         THEN Some(cfg[k].name)
    ELSE MatchFrom(cfg, k + 1, dev_name, dev_compat)

\* A slip: a match through the device name anywhere in the manifest is
\* preferred to a match through the device's compatible list.
match_driverNameFirst(cfg, dev_name, dev_compat) ==
    IF MatchFrom(cfg, 1, dev_name, << >>) # None
    THEN MatchFrom(cfg, 1, dev_name, << >>)
    ELSE MatchFrom(cfg, 1, dev_name, dev_compat)

match_driver(cfg, dev_name, dev_compat) == MatchFrom(cfg, 1, dev_name, dev_compat)

\* The launcher's state: the tree, pids, and the spawn requests issued so far
\* in the current operation. oc lists the process manager's answers in the
\* order of the requests: 0 is a failure, p > 0 is Ok(p).
Launch(t, p, sp) == [tree |-> t, pids |-> p, spawns |-> sp]

SpawnReq(id, bin, state) == [id |-> id, bin |-> bin, state |-> state]

SetState(t, id, s) ==
    [t EXCEPT !.nodes[id.index + 1] = Some([@[1] EXCEPT !.state = s])]

MapInsert(m, k, v) == (k :> v) @@ m

MapRemove(m, k) == [x \in (DOMAIN m) \ {k} |-> m[x]]

\* A slip: a Ready node that no driver matches is marked Error.
start_driverStrict(cfg, st, id, oc) ==
    LET node == get_node(st.tree, id)
    IN  IF node = None THEN [st |-> st, err |-> "InvalidArgs"]
        ELSE IF node[1].state # "Ready" THEN [st |-> st, err |-> "Ok"]
        ELSE LET bin == match_driver(cfg, node[1].desc.name, node[1].desc.compatible)
             IN  IF bin = None
                 THEN [st |-> [st EXCEPT !.tree = SetState(@, id, "Error")], err |-> "Ok"]
                 ELSE LET answer == oc[Len(st.spawns) + 1]
                          st1 == [st EXCEPT !.spawns =
                                     Append(@, SpawnReq(id, bin[1], node[1].state))]
                      IN  IF answer > 0
                          THEN [st |-> [st1 EXCEPT !.pids = MapInsert(@, answer, id),
                                                   !.tree = SetState(@, id, "Running")],
                                err |-> "Ok"]
                          ELSE [st |-> [st1 EXCEPT !.tree = SetState(@, id, "Error")],
                                err |-> "SpawnFailed"]

\* A slip: a successful spawn marks the node Running but does not record
\* the pid.
start_driverUnbound(cfg, st, id, oc) ==
    LET node == get_node(st.tree, id)
    IN  IF node = None THEN [st |-> st, err |-> "InvalidArgs"]
        ELSE IF node[1].state # "Ready" THEN [st |-> st, err |-> "Ok"]
        ELSE LET bin == match_driver(cfg, node[1].desc.name, node[1].desc.compatible)
             IN  IF bin = None THEN [st |-> st, err |-> "Ok"]
                 ELSE LET answer == oc[Len(st.spawns) + 1]
                          st1 == [st EXCEPT !.spawns =
                                     Append(@, SpawnReq(id, bin[1], node[1].state))]
                      IN  IF answer > 0
                          THEN [st |-> [st1 EXCEPT !.tree = SetState(@, id, "Running")],
                                err |-> "Ok"]
                          ELSE [st |-> [st1 EXCEPT !.tree = SetState(@, id, "Error")],
                                err |-> "SpawnFailed"]

\* A slip: a failed spawn leaves the node Ready instead of marking it Error.
start_driverRetry(cfg, st, id, oc) ==
    LET node == get_node(st.tree, id)
    IN  IF node = None THEN [st |-> st, err |-> "InvalidArgs"]
        ELSE IF node[1].state # "Ready" THEN [st |-> st, err |-> "Ok"]
        ELSE LET bin == match_driver(cfg, node[1].desc.name, node[1].desc.compatible)
             IN  IF bin = None THEN [st |-> st, err |-> "Ok"]
                 ELSE LET answer == oc[Len(st.spawns) + 1]
                          st1 == [st EXCEPT !.spawns =
                                     Append(@, SpawnReq(id, bin[1], node[1].state))]
                      IN  IF get_node_mut(st1.tree, id) = None
                          THEN [st |-> st1, err |-> "InvalidArgs"]
                          ELSE IF answer > 0
                          THEN [st |-> [st1 EXCEPT !.pids = MapInsert(@, answer, id),
                                                   !.tree = SetState(@, id, "Running")],
                                err |-> "Ok"]
                          ELSE [st |-> st1, err |-> "SpawnFailed"]

start_driver(cfg, st, id, oc) ==
    LET node == get_node(st.tree, id)
    IN  IF node = None THEN [st |-> st, err |-> "InvalidArgs"]
        ELSE IF node[1].state # "Ready" THEN [st |-> st, err |-> "Ok"]
        ELSE LET bin == match_driver(cfg, node[1].desc.name, node[1].desc.compatible)
             IN  IF bin = None THEN [st |-> st, err |-> "Ok"]
                 ELSE LET answer == oc[Len(st.spawns) + 1]
                          st1 == [st EXCEPT !.spawns =
                                     Append(@, SpawnReq(id, bin[1], node[1].state))]
                      IN  IF get_node_mut(st1.tree, id) = None
                          THEN [st |-> st1, err |-> "InvalidArgs"]
                          ELSE IF answer > 0
                          THEN [st |-> [st1 EXCEPT !.pids = MapInsert(@, answer, id),
                                                   !.tree = SetState(@, id, "Running")],
                                err |-> "Ok"]
                          ELSE [st |-> [st1 EXCEPT !.tree = SetState(@, id, "Error")],
                                err |-> "SpawnFailed"]

----------------------------------------------------------------------------
(* Scanning and the tree handlers of DeviceService, unicorn/device.rs *)

\* A slip: the loop ends at the first driver that fails to start.
RECURSIVE ScanLoopStop(_, _, _, _)
ScanLoopStop(cfg, st, queue, oc) ==
    IF queue = << >> THEN st
    ELSE LET id == Head(queue)
             node == get_node(st.tree, id)
             needs_start == node # None /\ node[1].state = "Ready"
             children == IF node # None THEN node[1].children ELSE << >>
             r == start_driver(cfg, st, id, oc)
         IN  IF needs_start /\ r.err # "Ok" THEN r.st
             ELSE ScanLoopStop(cfg, IF needs_start THEN r.st ELSE st,
                               Tail(queue) \o children, oc)

\* The while loop of scan_subtree over its VecDeque.
RECURSIVE ScanLoop(_, _, _, _)
ScanLoop(cfg, st, queue, oc) ==
    IF queue = << >> THEN st
    ELSE LET id == Head(queue)
             node == get_node(st.tree, id)
             needs_start == node # None /\ node[1].state = "Ready"
             children == IF node # None THEN node[1].children ELSE << >>
             st1 == IF needs_start THEN start_driver(cfg, st, id, oc).st ELSE st
         IN  ScanLoop(cfg, st1, Tail(queue) \o children, oc)

\* The ids the while loop of scan_subtree pops, in order, within fuel
\* iterations; done says whether the queue ran empty.
RECURSIVE ScanVisits(_, _, _, _)
ScanVisits(t, queue, seen, fuel) ==
    IF queue = << >> THEN [done |-> TRUE, visited |-> seen]
    ELSE IF fuel = 0 THEN [done |-> FALSE, visited |-> seen]
    ELSE LET id == Head(queue)
             node == get_node(t, id)
             children == IF node # None THEN node[1].children ELSE << >>
         IN  ScanVisits(t, Tail(queue) \o children, Append(seen, id), fuel - 1)

scan_subtree(cfg, st, start_id, oc) == ScanLoop(cfg, st, <<start_id>>, oc)

scan_platform(cfg, st, oc) ==
    IF st.tree.root # None THEN scan_subtree(cfg, st, st.tree.root[1], oc) ELSE st

report(cfg, st, badge, desc, oc) ==
    IF badge \in DOMAIN st.pids
    THEN LET node_id == st.pids[badge]
             r == mount_subtree(st.tree, node_id, desc)
         IN  IF ~r.ok
             THEN [st |-> [st EXCEPT !.tree = r.tree], err |-> r.err, made |-> r.val]
             ELSE [st |-> scan_subtree(cfg, [st EXCEPT !.tree = r.tree], node_id, oc),
                   err |-> "Ok", made |-> r.val]
    ELSE [st |-> st, err |-> "InvalidArgs", made |-> << >>]

SetCompatReady(t, id, compatible) ==
    [t EXCEPT !.nodes[id.index + 1] =
        Some([@[1] EXCEPT !.desc.compatible = compatible, !.state = "Ready"])]

\* A slip: the badge is looked up but not removed from pids.
updateKeepPid(cfg, st, badge, compatible, oc) ==
    IF badge \in DOMAIN st.pids
    THEN LET node_id == st.pids[badge]
         IN  IF get_node_mut(st.tree, node_id) = None
             THEN [st |-> st, err |-> "InvalidArgs"]
             ELSE [st |-> scan_subtree(cfg,
                              [st EXCEPT !.tree = SetCompatReady(@, node_id, compatible)],
                              node_id, oc),
                   err |-> "Ok"]
    ELSE [st |-> st, err |-> "InvalidArgs"]

\* A slip: an update from an unbound badge is applied to the root node.
updateRoot(cfg, st, badge, compatible, oc) ==
    IF badge \in DOMAIN st.pids \/ st.tree.root # None
    THEN LET node_id == IF badge \in DOMAIN st.pids THEN st.pids[badge]
                        ELSE st.tree.root[1]
             st1 == [st EXCEPT !.pids = MapRemove(@, badge)]
         IN  IF get_node_mut(st1.tree, node_id) = None
             THEN [st |-> st1, err |-> "InvalidArgs"]
             ELSE [st |-> scan_subtree(cfg,
                              [st1 EXCEPT !.tree = SetCompatReady(@, node_id, compatible)],
                              node_id, oc),
                   err |-> "Ok"]
    ELSE [st |-> st, err |-> "InvalidArgs"]

update(cfg, st, badge, compatible, oc) ==
    IF badge \in DOMAIN st.pids
    THEN LET node_id == st.pids[badge]
             st1 == [st EXCEPT !.pids = MapRemove(@, badge)]
         IN  IF get_node_mut(st1.tree, node_id) = None
             THEN [st |-> st1, err |-> "InvalidArgs"]
             ELSE [st |-> scan_subtree(cfg,
                              [st1 EXCEPT !.tree = SetCompatReady(@, node_id, compatible)],
                              node_id, oc),
                   err |-> "Ok"]
    ELSE [st |-> st, err |-> "InvalidArgs"]

\* find_desc_recursive: depth-first, a node before its children, children in
\* order; the first node with the name wins.
RECURSIVE find_desc_recursive(_, _, _)
RECURSIVE FindInChildren(_, _, _, _)
FindInChildren(t, children, k, name) ==
    IF k > Len(children) THEN None
    ELSE LET d == find_desc_recursive(t, children[k], name)
         IN  IF d # None THEN d ELSE FindInChildren(t, children, k + 1, name)

find_desc_recursive(t, id, name) ==
    LET node == get_node(t, id)
    IN  IF node = None THEN None
        ELSE IF node[1].desc.name = name THEN Some(node[1].desc)
        ELSE FindInChildren(t, node[1].children, 1, name)

get_desc(t, name) ==
    IF t.root # None
    THEN LET d == find_desc_recursive(t, t.root[1], name)
         IN  IF d # None THEN [err |-> "Ok", ret |-> d]
             ELSE [err |-> "NotFound", ret |-> None]
    ELSE [err |-> "NotFound", ret |-> None]

----------------------------------------------------------------------------
(* Resource brokerage, unicorn/device.rs get_mmio and get_irq *)

PGSIZE == 4096

\* A request to the resource manager (get_cap) or the kernel (get_frame).
CapReq(kind, badge, id, pages, slot) ==
    [kind |-> kind, badge |-> badge, id |-> id, pages |-> pages, slot |-> slot]

\* The broker's state: slots handed out and the two caches.
Broker(cs, mc, ic) == [cspace |-> cs, mmio_caps |-> mc, irq_caps |-> ic]

BrokerErr(b, e, al, rq) ==
    [b |-> b, err |-> e, ret |-> << >>, allocs |-> al, reqs |-> rq]

\* cspace_mgr.alloc: the next slot, or an error when the CSpace is full or
\* the resource manager refuses (allocOk = FALSE).
CanAlloc(b, allocOk) == allocOk /\ b.cspace < MaxSlots

\* A slip: the slot is allocated before the request is validated.
get_mmioAllocFirst(t, p, b, badge, id, allocOk, capOk) ==
    IF ~CanAlloc(b, allocOk) THEN BrokerErr(b, "OutOfMemory", 0, << >>)
    ELSE LET b1 == [b EXCEPT !.cspace = @ + 1]
         IN  IF badge \notin DOMAIN p THEN BrokerErr(b1, "InvalidArgs", 1, << >>)
             ELSE LET node == get_node(t, p[badge])
                  IN  IF node = None \/ id >= Len(node[1].desc.mmio)
                      THEN BrokerErr(b1, "InvalidArgs", 1, << >>)
                      ELSE [b |-> b1, err |-> IF capOk THEN "Ok" ELSE "CapFailed",
                            ret |-> IF capOk
                                    THEN <<b.cspace, node[1].desc.mmio[id + 1].base_addr,
                                           node[1].desc.mmio[id + 1].size>>
                                    ELSE << >>,
                            allocs |-> 1,
                            reqs |-> <<CapReq("get_frame", badge,
                                              node[1].desc.mmio[id + 1].base_addr, 1,
                                              b.cspace)>>]

\* A slip: the region is looked up in the root node, whoever asks.
get_mmioRootRegion(t, p, b, badge, id, allocOk, capOk) ==
    IF badge \notin DOMAIN p \/ t.root = None THEN BrokerErr(b, "InvalidArgs", 0, << >>)
    ELSE LET node == get_node(t, t.root[1])
         IN  IF node = None THEN BrokerErr(b, "InvalidArgs", 0, << >>)
             ELSE IF id >= Len(node[1].desc.mmio) THEN BrokerErr(b, "InvalidArgs", 0, << >>)
             ELSE IF ~CanAlloc(b, allocOk) THEN BrokerErr(b, "OutOfMemory", 0, << >>)
             ELSE LET region == node[1].desc.mmio[id + 1]
                      slot == b.cspace
                      b1 == [b EXCEPT !.cspace = @ + 1]
                      rq == CapReq("get_cap_mmio", badge, region.base_addr, 0, slot)
                  IN  IF ~capOk THEN BrokerErr(b1, "CapFailed", 1, <<rq>>)
                      ELSE [b |-> b1, err |-> "Ok",
                            ret |-> <<slot, region.base_addr, region.size>>,
                            allocs |-> 1, reqs |-> <<rq>>]

get_mmio(t, p, b, badge, id, allocOk, capOk) ==
    IF badge \notin DOMAIN p THEN BrokerErr(b, "InvalidArgs", 0, << >>)
    ELSE LET node == get_node(t, p[badge])
         IN  IF node = None THEN BrokerErr(b, "InvalidArgs", 0, << >>)
             ELSE IF id >= Len(node[1].desc.mmio) THEN BrokerErr(b, "InvalidArgs", 0, << >>)
             ELSE IF ~CanAlloc(b, allocOk) THEN BrokerErr(b, "OutOfMemory", 0, << >>)
             ELSE LET region == node[1].desc.mmio[id + 1]
                      name == node[1].desc.name
                      slot == b.cspace
                      b1 == [b EXCEPT !.cspace = @ + 1]
                      pages == (region.size + PGSIZE - 1) \div PGSIZE
                      rq == IF name = "dtb" \/ name = "acpi"
                            THEN CapReq("get_cap_mmio", badge, region.base_addr, 0, slot)
                            ELSE CapReq("get_frame", badge, region.base_addr, pages, slot)
                  IN  IF ~capOk THEN BrokerErr(b1, "CapFailed", 1, <<rq>>)
                      ELSE [b |-> b1, err |-> "Ok",
                            ret |-> <<slot, region.base_addr, region.size>>,
                            allocs |-> 1, reqs |-> <<rq>>]

get_irq(t, p, b, badge, id, allocOk, capOk) ==
    IF badge \notin DOMAIN p THEN BrokerErr(b, "InvalidArgs", 0, << >>)
    ELSE LET node == get_node(t, p[badge])
         IN  IF node = None THEN BrokerErr(b, "InvalidArgs", 0, << >>)
             ELSE IF id >= Len(node[1].desc.irq) THEN BrokerErr(b, "InvalidArgs", 0, << >>)
             ELSE IF ~CanAlloc(b, allocOk) THEN BrokerErr(b, "OutOfMemory", 0, << >>)
             ELSE LET irq_num == node[1].desc.irq[id + 1]
                      slot == b.cspace
                      b1 == [b EXCEPT !.cspace = @ + 1]
                      rq == CapReq("get_cap_irq", badge, irq_num, 0, slot)
                  IN  IF ~capOk THEN BrokerErr(b1, "CapFailed", 1, <<rq>>)
                      ELSE [b |-> b1, err |-> "Ok", ret |-> <<slot>>,
                            allocs |-> 1, reqs |-> <<rq>>]

----------------------------------------------------------------------------
(* Logic registries: their state after construction *)

\* UnicornManager::new, the registry fields (unicorn/mod.rs).
RegNew ==
    [ logical_devices |-> << >>, next_logic_id |-> 1,
      disk_count |-> 0, net_count |-> 0, fb_count |-> 0, uart_count |-> 0,
      input_count |-> 0, gpio_count |-> 0, platform_count |-> 0,
      thermal_count |-> 0, battery_count |-> 0, hooks |-> << >> ]

\* LogicDeviceService::new with LogicDeviceCounter::default (unicorn/logic.rs).
LdsNew ==
    [ devices |-> << >>,
      counter |-> [ disk |-> 0, net |-> 0, fb |-> 0, uart |-> 0, input |-> 0,
                    gpio |-> 0, platform |-> 0, thermal |-> 0, battery |-> 0,
                    timer |-> 0, next_id |-> 1 ] ]

----------------------------------------------------------------------------
(* The logic registry of UnicornManager, unicorn/device.rs register_logic *)

\* dev_type: the variant and, for Block and RawBlock, its PartitionMetadata.
DevType(kind, meta) == [kind |-> kind, meta |-> meta]

PartitionMetadata(parent, start_lba, num_blocks, block_size) ==
    [parent |-> parent, start_lba |-> start_lba, num_blocks |-> num_blocks,
     block_size |-> block_size]

LogicDeviceDesc(parent_name, dev_type, badge) ==
    [parent_name |-> parent_name, dev_type |-> dev_type, badge |-> badge]

LogicEntry(desc, ep, name) == [desc |-> desc, ep |-> ep, name |-> name]

\* Block entries registered under a parent name.
BlockCount(devices, parent_name) ==
    Cardinality({ k \in DOMAIN devices :
                    /\ devices[k].desc.dev_type.kind = "Block"
                    /\ devices[k].desc.parent_name = parent_name })

PartName(devices, parent_name) ==
    parent_name \o "p" \o ToString(BlockCount(devices, parent_name) + 1)

\* The name match of register_logic: the name and the registry with the
\* variant's counter advanced.
AssignName(r, desc) ==
    LET k == desc.dev_type.kind
    IN  CASE k = "RawBlock" ->
               [name |-> "disk" \o ToString(r.disk_count),
                reg |-> [r EXCEPT !.disk_count = @ + 1]]
          [] k = "Net" ->
               [name |-> "net" \o ToString(r.net_count),
                reg |-> [r EXCEPT !.net_count = @ + 1]]
          [] k = "Fb" ->
               [name |-> "fb" \o ToString(r.fb_count),
                reg |-> [r EXCEPT !.fb_count = @ + 1]]
          [] k = "Uart" ->
               [name |-> "uart" \o ToString(r.uart_count),
                reg |-> [r EXCEPT !.uart_count = @ + 1]]
          [] k = "Input" ->
               [name |-> "input" \o ToString(r.input_count),
                reg |-> [r EXCEPT !.input_count = @ + 1]]
          [] k = "Gpio" ->
               [name |-> "gpio" \o ToString(r.gpio_count),
                reg |-> [r EXCEPT !.gpio_count = @ + 1]]
          [] k = "Platform" ->
               [name |-> "platform" \o ToString(r.platform_count),
                reg |-> [r EXCEPT !.platform_count = @ + 1]]
          [] k = "Thermal" ->
               [name |-> "thermal" \o ToString(r.thermal_count),
                reg |-> [r EXCEPT !.thermal_count = @ + 1]]
          [] k = "Battery" ->
               [name |-> "battery" \o ToString(r.battery_count),
                reg |-> [r EXCEPT !.battery_count = @ + 1]]
          [] k = "Block" ->
               [name |-> PartName(r.logical_devices, desc.parent_name), reg |-> r]

LogicRes(r, cs, e, al) == [reg |-> r, cspace |-> cs, err |-> e, allocs |-> al]

\* The partition loop of register_logic over the descriptors probe_partitions
\* returned; allocOk and capOk answer the slot allocation and the mint of
\* each round (the same answers for every round).
RECURSIVE RegisterPartitions(_, _, _, _, _, _)
RegisterPartitions(r, cs, al, partitions, allocOk, capOk) ==
    IF partitions = << >> THEN LogicRes(r, cs, "Ok", al)
    ELSE LET p_desc == Head(partitions)
             p_idx == r.next_logic_id
             r1 == [r EXCEPT !.next_logic_id = @ + 1]
         IN  IF ~(allocOk /\ cs < MaxSlots) THEN LogicRes(r1, cs, "OutOfMemory", al)
             ELSE IF ~capOk THEN LogicRes(r1, cs + 1, "CapFailed", al + 1)
             ELSE LET p_name == PartName(r1.logical_devices, p_desc.parent_name)
                      r2 == [r1 EXCEPT !.logical_devices =
                                MapInsert(@, p_idx, LogicEntry(p_desc, cs, p_name))]
                  IN  RegisterPartitions(r2, cs + 1, al + 1, Tail(partitions),
                                         allocOk, capOk)

\* What probe_partitions returns for a disk: an error (probe < 0) or probe
\* Block descriptors under the disk's name (unicorn/partition.rs).
ProbeResult(ep, parent_name, probe) ==
    [k \in 1..probe |->
        LogicDeviceDesc(parent_name,
                        DevType("Block", Some(PartitionMetadata(ep, k - 1, 1, 512))),
                        None)]

\* The endpoint handling of register_logic: where the incoming capability
\* ends up (slot, with which badge) and whether the receive window still
\* holds a capability afterwards. mint copies, move_cap empties its source.
KeepEndpoint(cs, desc, endpoint, allocOk, capOk) ==
    IF endpoint = 0
    THEN [err |-> "InvalidArgs", slot |-> None, how |-> "none", window |-> "empty"]
    ELSE IF ~(allocOk /\ cs < MaxSlots)
    THEN [err |-> "OutOfMemory", slot |-> None, how |-> "none", window |-> "held"]
    ELSE IF ~capOk
    THEN [err |-> "CapFailed", slot |-> Some(cs), how |-> "none", window |-> "held"]
    ELSE IF desc.badge # None
    THEN [err |-> "Ok", slot |-> Some(cs), how |-> "mint", window |-> "held"]
    ELSE [err |-> "Ok", slot |-> Some(cs), how |-> "move", window |-> "empty"]

\* endpoint is the receive-window slot, or 0 for a null capability.
register_logic(r, cs, desc, endpoint, allocOk, capOk, probe, partOk) ==
    IF endpoint = 0 THEN LogicRes(r, cs, "InvalidArgs", 0)
    ELSE IF ~(allocOk /\ cs < MaxSlots) THEN LogicRes(r, cs, "OutOfMemory", 0)
    ELSE IF ~capOk THEN LogicRes(r, cs + 1, "CapFailed", 1)
    ELSE LET ep == cs
             an == AssignName(r, desc)
             id == an.reg.next_logic_id
             r1 == [an.reg EXCEPT !.next_logic_id = @ + 1,
                                  !.logical_devices =
                                      MapInsert(@, id, LogicEntry(desc, ep, an.name))]
         IN  IF desc.dev_type.kind # "RawBlock" THEN LogicRes(r1, cs + 1, "Ok", 1)
             ELSE IF probe < 0 THEN LogicRes(r1, cs + 1, "ProbeFailed", 1)
             ELSE RegisterPartitions(r1, cs + 1, 1, ProbeResult(ep, an.name, probe),
                                     partOk, partOk)

\* DeviceQuery { name, compatible, dev_type }.
DeviceQuery(name, compatible, dev_type) ==
    [name |-> name, compatible |-> compatible, dev_type |-> dev_type]

\* query_recursive: the node's name when the compatible filter is empty or
\* names one of the node's compatible strings, then the children in order.
RECURSIVE query_recursive(_, _, _, _)
RECURSIVE QueryChildren(_, _, _, _, _)
QueryChildren(t, children, k, q, results) ==
    IF k > Len(children) THEN results
    ELSE QueryChildren(t, children, k + 1, q,
                       query_recursive(t, children[k], q, results))

query_recursive(t, id, q, results) ==
    LET node == get_node(t, id)
    IN  IF node = None THEN results
        ELSE LET hit == \/ q.compatible = << >>
                        \/ \E c \in DOMAIN q.compatible :
                              InSeq(q.compatible[c], node[1].desc.compatible)
                 r1 == IF hit THEN Append(results, node[1].desc.name) ELSE results
             IN  QueryChildren(t, node[1].children, 1, q, r1)

\* The names of the registry entries with id >= k, in id order (BTreeMap
\* iteration).
RECURSIVE LogicNamesFrom(_, _)
LogicNamesFrom(devices, k) ==
    IF \A id \in DOMAIN devices : id < k THEN << >>
    ELSE IF k \in DOMAIN devices
         THEN <<devices[k].name>> \o LogicNamesFrom(devices, k + 1)
         ELSE LogicNamesFrom(devices, k + 1)

\* DeviceService::query: the tree's names, then every logic device's name
\* when the compatible filter is empty.
query(t, r, q) ==
    LET results == IF t.root # None THEN query_recursive(t, t.root[1], q, << >>)
                   ELSE << >>
    IN  IF q.compatible = << >>
        THEN results \o LogicNamesFrom(r.logical_devices, 1)
        ELSE results

\* The wire code of a device type in ALLOC_LOGIC; 0 stands for a variant
\* the match of alloc_logic has no arm for.
TypeCode(kind) ==
    CASE kind = "RawBlock" -> 1 [] kind = "Block" -> 2 [] kind = "Net" -> 3
      [] kind = "Fb" -> 4 [] kind = "Uart" -> 5 [] kind = "Input" -> 6
      [] kind = "Gpio" -> 7 [] kind = "Platform" -> 8 [] kind = "Thermal" -> 9
      [] kind = "Battery" -> 10 [] OTHER -> 0

\* A mint: the source capability, the slot, the badge and the rights.
MintReq(src, slot, badge, rights) ==
    [kind |-> "mint", src |-> src, slot |-> slot, badge |-> badge, rights |-> rights]

\* The entries alloc_logic matches: type code and exact name.
AllocMatches(r, dev_type, criteria) ==
    { id \in DOMAIN r.logical_devices :
        /\ TypeCode(r.logical_devices[id].desc.dev_type.kind) = dev_type
        /\ dev_type # 0
        /\ r.logical_devices[id].name = criteria }

Least(S) == CHOOSE x \in S : \A y \in S : x <= y

\* A slip: the slot is allocated before the lookup.
alloc_logicAllocFirst(r, b, badge, dev_type, criteria, allocOk, capOk) ==
    IF ~CanAlloc(b, allocOk) THEN BrokerErr(b, "OutOfMemory", 0, << >>)
    ELSE BrokerErr([b EXCEPT !.cspace = @ + 1], "NotFound", 1, << >>)

\* DeviceService::alloc_logic: the first entry in id order that matches; the
\* mint is from the manager's own endpoint with the entry's id as badge.
alloc_logic(r, b, badge, dev_type, criteria, allocOk, capOk) ==
    LET ms == AllocMatches(r, dev_type, criteria)
    IN  IF ms = {} THEN BrokerErr(b, "NotFound", 0, << >>)
        ELSE IF ~CanAlloc(b, allocOk) THEN BrokerErr(b, "OutOfMemory", 0, << >>)
        ELSE LET id == Least(ms)
                 slot == b.cspace
                 b1 == [b EXCEPT !.cspace = @ + 1]
                 rq == MintReq("self.endpoint", slot, id, "ALL")
             IN  IF ~capOk THEN BrokerErr(b1, "CapFailed", 1, <<rq>>)
                 ELSE [b |-> b1, err |-> "Ok", ret |-> <<slot>>,
                       allocs |-> 1, reqs |-> <<rq>>]

----------------------------------------------------------------------------
(* LogicDeviceService, unicorn/logic.rs *)

\* LogicDeviceDesc as logic.rs uses it: with a name, and unit variants.
LdsDesc(name, parent_name, kind) ==
    [name |-> name, parent_name |-> parent_name, dev_type |-> kind]

VolumeCount(devices, parent_name) ==
    Cardinality({ k \in DOMAIN devices :
                    /\ devices[k].desc.dev_type = "Volume"
                    /\ devices[k].desc.parent_name = parent_name })

\* The name match of LogicDeviceService::register.
LdsName(l, desc) ==
    LET k == desc.dev_type
        c == l.counter
    IN  CASE k = "Block" ->
               [name |-> "disk" \o ToString(c.disk), counter |-> [c EXCEPT !.disk = @ + 1]]
          [] k = "Net" ->
               [name |-> "net" \o ToString(c.net), counter |-> [c EXCEPT !.net = @ + 1]]
          [] k = "Volume" ->
               [name |-> desc.parent_name \o "p"
                           \o ToString(VolumeCount(l.devices, desc.parent_name) + 1),
                counter |-> c]
          [] k = "Timer" ->
               [name |-> "timer" \o ToString(c.timer),
                counter |-> [c EXCEPT !.timer = @ + 1]]
          [] k = "Platform" -> [name |-> "platform", counter |-> c]
          [] k = "Fb" ->
               [name |-> "fb" \o ToString(c.fb), counter |-> [c EXCEPT !.fb = @ + 1]]
          [] k = "Uart" ->
               [name |-> "uart" \o ToString(c.uart), counter |-> [c EXCEPT !.uart = @ + 1]]
          [] k = "Input" ->
               [name |-> "input" \o ToString(c.input),
                counter |-> [c EXCEPT !.input = @ + 1]]
          [] OTHER -> [name |-> "logic" \o ToString(c.next_id), counter |-> c]

LdsRes(l, cs, e, id, name) ==
    [lds |-> l, cspace |-> cs, err |-> e, id |-> id, name |-> name]

LdsRegister(l, cs, desc, endpoint, allocOk, capOk) ==
    IF ~(allocOk /\ cs < MaxSlots) THEN LdsRes(l, cs, "OutOfMemory", 0, "")
    ELSE IF ~capOk THEN LdsRes(l, cs + 1, "CapFailed", 0, "")
    ELSE LET ep == cs
             an == LdsName(l, desc)
             id == an.counter.next_id
             l1 == [devices |-> MapInsert(l.devices, id, LogicEntry(desc, ep, an.name)),
                    counter |-> [an.counter EXCEPT !.next_id = @ + 1]]
         IN  LdsRes(l1, cs + 1, "Ok", id, an.name)

----------------------------------------------------------------------------
(* History record of the last operation *)

Idle ==
    [ op |-> "none", badge |-> 0, res |-> "Ok", parent |-> None, mount |-> None,
      nodes |-> << >>, desc |-> None, idx |-> 0, name |-> "", made |-> << >>,
      spawns |-> << >>, reqs |-> << >>, allocs |-> 0, ret |-> << >>, rep |-> FALSE,
      changed |-> FALSE, before |-> 0,
      boot |-> << >>, msg |-> << >>, replies |-> << >>, notes |-> << >>,
      recv |-> << >> ]

----------------------------------------------------------------------------
(* The DeviceTree under its public API: any sequence of insert and         *)
(* mount_subtree calls, with live and dangling handles.                    *)

\* Handles a caller may pass: every live one, one past the end, one stale.
Handles(t) ==
    { DeviceId(i, 0) : i \in 0..Len(t.nodes) } \cup { DeviceId(0, 1) }

\* The descriptors of a pool in a fixed order.
RECURSIVE PoolSeq(_)
PoolSeq(S) ==
    IF S = {} THEN << >>
    ELSE LET d == CHOOSE x \in S : TRUE IN <<d>> \o PoolSeq(S \ {d})

\* Flat subtree lists: every parent field is usize::MAX or an index below the
\* longest list length (earlier, self, forward and out of range all occur);
\* the descriptors run through the pool from any starting point.
NodeLists(descs) ==
    LET pool == PoolSeq(descs)
    IN  UNION { { [k \in 1..n |->
                     DeviceDescNode(ps[k], pool[((s + k) % Len(pool)) + 1])]
                  : ps \in [1..n -> {USIZE_MAX} \cup 0..(MaxReport - 1)],
                    s \in 0..(Len(pool) - 1) }
                : n \in 0..MaxReport }

InitTree ==
    /\ tree = TreeNew
    /\ pids = << >>
    /\ config = << >>
    /\ pc = "tree"
    /\ cspace = 0
    /\ mmio_caps = << >>
    /\ irq_caps = << >>
    /\ reg = RegNew
    /\ lds = LdsNew
    /\ issued = {}
    /\ last = Idle

TreeInsert ==
    /\ pc = "tree"
    /\ Len(tree.nodes) < MaxTreeNodes
    /\ \E p \in {None} \cup { Some(h) : h \in Handles(tree) }, d \in DescPool :
          LET r == insert(tree, p, d)
          IN  /\ tree' = r.tree
              /\ issued' = IF r.ok THEN issued \cup {[id |-> r.val, desc |-> d]} ELSE issued
              /\ last' = [Idle EXCEPT !.op = "insert", !.parent = p, !.desc = Some(d),
                                      !.res = r.err,
                                      !.ret = IF r.ok THEN <<r.val>> ELSE << >>,
                                      !.changed = (r.tree # tree)]
    /\ UNCHANGED <<pids, config, pc, cspace, mmio_caps, irq_caps, reg, lds>>

TreeMount ==
    /\ pc = "tree"
    /\ \E mp \in Handles(tree), ns \in NodeLists(DescPool) :
          /\ Len(tree.nodes) + Len(ns) <= MaxTreeNodes
          /\ LET r == mount_subtree(tree, mp, ns)
             IN  /\ tree' = r.tree
                 /\ issued' = issued \cup { r.val[k] : k \in DOMAIN r.val }
                 /\ last' = [Idle EXCEPT !.op = "mount_subtree", !.mount = Some(mp),
                                         !.nodes = ns, !.res = r.err, !.made = r.val,
                                         !.changed = (r.tree # tree)]
    /\ UNCHANGED <<pids, config, pc, cspace, mmio_caps, irq_caps, reg, lds>>

NextTree == TreeInsert \/ TreeMount

SpecTree == InitTree /\ [][NextTree]_vars

----------------------------------------------------------------------------
(* The server: SystemService::init, then one action per request handled    *)
(* by the run loop (unicorn/server.rs).                                    *)

\* The manifest the resource manager supplies as drivers.json.
ManifestPool ==
    { << DriverEntry("platd", <<"acpi", "dtb">>), DriverEntry("pcid", <<"pci">>),
         DriverEntry("netd", <<"virtio-net">>) >> }

BootInfo(pt, sz) ==
    [ platform_type |-> pt, addr |-> 4096, size |-> 4096,
      initrd_paddr |-> 8192, initrd_size |-> sz ]

\* Boot-info pages: a platform with and without an initrd, and no platform.
BootInfos ==
    { BootInfo("ACPI", 0), BootInfo("DTB", 512), BootInfo("Unknown", 512),
      BootInfo("Unknown", 0) }

\* Compatible lists sent with UPDATE.
CompatPool == { << >>, <<"virtio-net">> }

\* Names asked for with GET_DESC.
NamePool == { "acpi", "virtio0", "nosuch" }

Badges == 0..MaxPid

\* Answers of the process manager to one spawn request: 0 fails, p is Ok(p).
Outcomes == 0..MaxPid

AllFail == [k \in 1..(MaxNodes + 1) |-> 0]

Init ==
    /\ tree = TreeNew
    /\ pids = << >>
    /\ config = << >>
    /\ pc = "new"
    /\ cspace = 0
    /\ mmio_caps = << >>
    /\ irq_caps = << >>
    /\ reg = RegNew
    /\ lds = LdsNew
    /\ issued = {}
    /\ last = Idle

init_root_platform(t, bootinfo) ==
    IF bootinfo.platform_type \in {"ACPI", "DTB"}
    THEN insert(t, None,
                DeviceDesc(IF bootinfo.platform_type = "ACPI" THEN "acpi" ELSE "dtb",
                           << >>, <<MMIORegion(bootinfo.addr, bootinfo.size)>>, << >>))
    ELSE Ok(t, << >>)

init_initrd_device(t, bootinfo) ==
    IF bootinfo.initrd_size = 0 THEN Ok(t, << >>)
    ELSE insert(t, t.root,
                DeviceDesc("ramdisk", <<"ramdisk">>,
                           <<MMIORegion(bootinfo.initrd_paddr, bootinfo.initrd_size)>>, << >>))

\* init over a pool of manifests: failAt names the external call that fails, if any ("config": loading
\* the manifest or the boot info; "threshold": IRQ_CONTROL_CAP.set_threshold).
SysInitFrom(manifests) ==
    /\ pc = "new"
    /\ \E cfg \in manifests, bootinfo \in BootInfos,
          failAt \in {"none", "config", "threshold"} :
          LET r1 == init_root_platform(tree, bootinfo)
              r2 == init_initrd_device(r1.tree, bootinfo)
              st0 == Launch(r2.tree, pids, << >>)
              n == Len(scan_platform(cfg, st0, AllFail).spawns)
          IN  IF failAt = "config"
              THEN /\ pc' = "failed"
                   /\ last' = [Idle EXCEPT !.op = "init", !.res = "InitFailed"]
                   /\ UNCHANGED <<tree, pids, config>>
              ELSE IF failAt = "threshold" /\ bootinfo.platform_type # "Unknown"
              THEN /\ pc' = "failed"
                   /\ config' = cfg
                   /\ tree' = r1.tree
                   /\ last' = [Idle EXCEPT !.op = "init", !.res = "InitFailed"]
                   /\ UNCHANGED pids
              ELSE \E oc \in [1..n -> Outcomes] :
                      LET st == scan_platform(cfg, st0, oc)
                      IN  /\ pc' = "serving"
                          /\ config' = cfg
                          /\ tree' = st.tree
                          /\ pids' = st.pids
                          /\ last' = [Idle EXCEPT !.op = "init", !.spawns = st.spawns,
                                                  !.boot = Some(bootinfo), !.ret = oc]
    /\ UNCHANGED <<cspace, mmio_caps, irq_caps, reg, lds, issued>>

SysInit == SysInitFrom(ManifestPool)

\* Each request is an operation with a flag, track, that says whether the
\* history keeps the request's details or only its name. A specification
\* tracks the requests its claims are about.

\* SCAN_PLATFORM; the handler ignores the sender's badge.
ScanOp(track) ==
    /\ pc = "serving"
    /\ LET st0 == Launch(tree, pids, << >>)
           n == Len(scan_platform(config, st0, AllFail).spawns)
       IN  \E oc \in [1..n -> Outcomes] :
              LET st == scan_platform(config, st0, oc)
              IN  /\ tree' = st.tree
                  /\ pids' = st.pids
                  /\ last' = IF track
                             THEN [Idle EXCEPT !.op = "scan_platform",
                                      !.spawns = st.spawns,
                                      !.rep = (last.op = "scan_platform"),
                                      !.before = IF last.op = "scan_platform"
                                                 THEN Len(last.spawns) ELSE 0,
                                      !.changed = (st.tree # tree \/ st.pids # pids)]
                             ELSE [Idle EXCEPT !.op = "scan_platform"]
    /\ UNCHANGED <<config, pc, cspace, mmio_caps, irq_caps, reg, lds, issued>>

\* REPORT. last.nodes is the list as far as the handler read it (it is not
\* read when the badge is unbound).
ReportOp(track) ==
    /\ pc = "serving"
    /\ \E badge \in Badges, ns \in NodeLists(DescPool) :
          /\ Len(tree.nodes) + Len(ns) <= MaxNodes
          /\ LET st0 == Launch(tree, pids, << >>)
                 n == Len(report(config, st0, badge, ns, AllFail).st.spawns)
             IN  \E oc \in [1..n -> Outcomes] :
                    LET r == report(config, st0, badge, ns, oc)
                    IN  /\ tree' = r.st.tree
                        /\ pids' = r.st.pids
                        /\ last' = IF track
                                   THEN [Idle EXCEPT !.op = "report", !.badge = badge,
                                            !.nodes = IF badge \in DOMAIN pids THEN ns
                                                      ELSE << >>,
                                            !.res = r.err, !.made = r.made,
                                            !.spawns = r.st.spawns]
                                   ELSE [Idle EXCEPT !.op = "report"]
    /\ UNCHANGED <<config, pc, cspace, mmio_caps, irq_caps, reg, lds, issued>>

\* UPDATE.
UpdateOp(track) ==
    /\ pc = "serving"
    /\ \E badge \in Badges, compatible \in CompatPool :
          LET st0 == Launch(tree, pids, << >>)
              n == Len(update(config, st0, badge, compatible, AllFail).st.spawns)
          IN  \E oc \in [1..n -> Outcomes] :
                 LET r == update(config, st0, badge, compatible, oc)
                 IN  /\ tree' = r.st.tree
                     /\ pids' = r.st.pids
                     /\ last' = IF track
                                THEN [Idle EXCEPT !.op = "update", !.badge = badge,
                                         !.res = r.err,
                                         !.ret = IF badge \in DOMAIN pids
                                                 THEN compatible ELSE << >>,
                                         !.spawns = r.st.spawns]
                                ELSE [Idle EXCEPT !.op = "update"]
    /\ UNCHANGED <<config, pc, cspace, mmio_caps, irq_caps, reg, lds, issued>>

GetMmio ==
    /\ pc = "serving"
    /\ \E badge \in Badges, id \in 0..1, allocOk \in BOOLEAN, capOk \in BOOLEAN :
          LET r == get_mmio(tree, pids, Broker(cspace, mmio_caps, irq_caps),
                            badge, id, allocOk, capOk)
          IN  /\ cspace' = r.b.cspace
              /\ mmio_caps' = r.b.mmio_caps
              /\ irq_caps' = r.b.irq_caps
              /\ last' = [Idle EXCEPT !.op = "get_mmio", !.badge = badge, !.idx = id,
                                      !.res = r.err, !.ret = r.ret,
                                      !.allocs = r.allocs, !.reqs = r.reqs]
    /\ UNCHANGED <<tree, pids, config, pc, reg, lds, issued>>

GetIrq ==
    /\ pc = "serving"
    /\ \E badge \in Badges, id \in 0..1, allocOk \in BOOLEAN, capOk \in BOOLEAN :
          LET r == get_irq(tree, pids, Broker(cspace, mmio_caps, irq_caps),
                           badge, id, allocOk, capOk)
          IN  /\ cspace' = r.b.cspace
              /\ mmio_caps' = r.b.mmio_caps
              /\ irq_caps' = r.b.irq_caps
              /\ last' = [Idle EXCEPT !.op = "get_irq", !.badge = badge, !.idx = id,
                                      !.res = r.err, !.ret = r.ret,
                                      !.allocs = r.allocs, !.reqs = r.reqs]
    /\ UNCHANGED <<tree, pids, config, pc, reg, lds, issued>>

\* GET_DESC; the handler ignores the sender's badge.
GetDesc ==
    /\ pc = "serving"
    /\ \E name \in NamePool :
          LET r == get_desc(tree, name)
          IN  last' = [Idle EXCEPT !.op = "get_desc", !.name = name,
                                   !.res = r.err, !.desc = r.ret]
    /\ UNCHANGED <<tree, pids, config, pc, cspace, mmio_caps, irq_caps, reg, lds, issued>>

ScanPlatform == ScanOp(TRUE)

Report == ReportOp(TRUE)

ReportQuiet == ReportOp(FALSE)

Update == UpdateOp(TRUE)

UpdateQuiet == UpdateOp(FALSE)

\* Scans, with reports and updates changing the tree in between.
NextScan ==
    \/ SysInit
    \/ ScanPlatform
    \/ ReportQuiet
    \/ UpdateQuiet

SpecScan == Init /\ [][NextScan]_vars

\* Reports and descriptor lookups.
NextReport ==
    \/ SysInit
    \/ Report
    \/ UpdateQuiet
    \/ GetDesc

SpecReport == Init /\ [][NextReport]_vars

\* Resource requests of the drivers bound at init and by reports.
NextBroker ==
    \/ SysInit
    \/ ReportQuiet
    \/ GetMmio
    \/ GetIrq

SpecBroker == Init /\ [][NextBroker]_vars

----------------------------------------------------------------------------
(* The logic registries under REGISTER_LOGIC *)

\* Partitions one probe may find.
MaxParts == 1

\* Longest manifest of the driver-matching specification.
MaxDrivers == 2

\* Descriptors sent with REGISTER_LOGIC to UnicornManager (unicorn/device.rs).
LogicDescPool ==
    { LogicDeviceDesc(pn, DevType(k, None), None) :
        pn \in {"", "disk0"}, k \in {"RawBlock", "Net", "Platform", "Block"} }

\* Descriptors registered with a LogicDeviceService (unicorn/logic.rs); Gpio
\* is one of the variants its name match leaves to the fallback arm.
LdsDescPool ==
    { LdsDesc("dev", pn, k) :
        pn \in {"", "disk0"},
        k \in {"Block", "Net", "Volume", "Timer", "Platform", "Gpio"} }

InitLogic ==
    /\ tree = TreeNew
    /\ pids = << >>
    /\ config = << >>
    /\ pc = "logic"
    /\ cspace = 0
    /\ mmio_caps = << >>
    /\ irq_caps = << >>
    /\ reg = RegNew
    /\ lds = LdsNew
    /\ issued = {}
    /\ last = Idle

\* REGISTER_LOGIC handled by DeviceService::register_logic.
RegisterLogic ==
    /\ pc = "logic"
    /\ \E desc \in LogicDescPool, endpoint \in 0..1, allocOk \in BOOLEAN,
          capOk \in BOOLEAN, probe \in (-1)..MaxParts, partOk \in BOOLEAN :
          /\ Cardinality(DOMAIN reg.logical_devices) + 1
                + (IF desc.dev_type.kind = "RawBlock" /\ probe > 0 THEN probe ELSE 0)
                <= MaxLogic
          /\ LET r == register_logic(reg, cspace, desc, endpoint, allocOk, capOk,
                                     probe, partOk)
             IN  /\ reg' = r.reg
                 /\ cspace' = r.cspace
                 /\ last' = [Idle EXCEPT !.op = "register_logic", !.res = r.err,
                                         !.allocs = r.allocs]
    /\ UNCHANGED <<tree, pids, config, pc, mmio_caps, irq_caps, lds, issued>>

NextLogic == RegisterLogic

SpecLogic == InitLogic /\ [][NextLogic]_vars

InitLds ==
    /\ tree = TreeNew
    /\ pids = << >>
    /\ config = << >>
    /\ pc = "lds"
    /\ cspace = 0
    /\ mmio_caps = << >>
    /\ irq_caps = << >>
    /\ reg = RegNew
    /\ lds = LdsNew
    /\ issued = {}
    /\ last = Idle

\* A registration with LogicDeviceService::register.
LdsRegisterOp ==
    /\ pc = "lds"
    /\ Cardinality(DOMAIN lds.devices) < MaxLogic
    /\ \E desc \in LdsDescPool, allocOk \in BOOLEAN, capOk \in BOOLEAN :
          LET r == LdsRegister(lds, cspace, desc, 1, allocOk, capOk)
          IN  /\ lds' = r.lds
              /\ cspace' = r.cspace
              /\ last' = [Idle EXCEPT !.op = "register", !.res = r.err,
                                      !.name = r.name,
                                      !.ret = IF r.err = "Ok" THEN <<r.id>> ELSE << >>]
    /\ UNCHANGED <<tree, pids, config, pc, mmio_caps, irq_caps, reg, issued>>

NextLds == LdsRegisterOp

SpecLds == InitLds /\ [][NextLds]_vars

----------------------------------------------------------------------------
(* The receive / dispatch / reply loop, unicorn/server.rs *)

\* The components of the manager a handler reads and writes.
Mgr(cfg, t, p, b, r) == [config |-> cfg, tree |-> t, pids |-> p, b |-> b, reg |-> r]

\* A received message: protocol, method, sender badge, the HAS_CAP flag, mr[0]
\* and the postcard body (body_ok: whether read_postcard can decode it).
Msg(proto, method, badge, has_cap, mr0, body, body_ok) ==
    [proto |-> proto, method |-> method, badge |-> badge, has_cap |-> has_cap,
     mr0 |-> mr0, body |-> body, body_ok |-> body_ok]

\* The answers of the outside world during one loop iteration: the process
\* manager (oc), cspace_mgr.alloc, the capability request, the partition
\* probe, the slot and mint of a partition, IrqHandler::ack, Reply::reply.
Env(oc, allocOk, capOk, probe, partOk, ackOk, replyOk) ==
    [oc |-> oc, allocOk |-> allocOk, capOk |-> capOk, probe |-> probe,
     partOk |-> partOk, ackOk |-> ackOk, replyOk |-> replyOk]

\* What a dispatch arm leaves: the manager, the handler's result, the
\* message registers of the reply, and what was sent to the process manager
\* (spawns), to the kernel or resource manager (reqs) and to hook
\* subscribers (notes) on the way.
Handled(s, res, mrs, spawns, reqs, notes) ==
    [s |-> s, res |-> res, mrs |-> mrs, spawns |-> spawns, reqs |-> reqs, notes |-> notes]

Quiet(s, res) == Handled(s, res, << >>, << >>, << >>, << >>)

handle_irq(s, irq, ackOk) ==
    IF irq \in DOMAIN s.b.irq_caps
    THEN IF ackOk THEN "Ok" ELSE "AckFailed"
    ELSE "Ok"

\* The acks handle_irq sends: one on the handler cached for the interrupt.
AckReq(irq, slot) == [kind |-> "ack", irq |-> irq, slot |-> slot]

handle_irq_acks(s, irq) ==
    IF irq \in DOMAIN s.b.irq_caps THEN << AckReq(irq, s.b.irq_caps[irq]) >> ELSE << >>

notify_arm(s, m, env) ==
    Handled(s, handle_irq(s, m.badge, env.ackOk), << >>, << >>,
            handle_irq_acks(s, m.badge), << >>)

report_arm(s, m, env) ==
    IF ~m.body_ok THEN Quiet(s, "DecodeFailed")
    ELSE LET r == report(s.config, Launch(s.tree, s.pids, << >>), m.badge, m.body, env.oc)
         IN  Handled([s EXCEPT !.tree = r.st.tree, !.pids = r.st.pids], r.err,
                     << >>, r.st.spawns, << >>, << >>)

update_arm(s, m, env) ==
    IF ~m.body_ok THEN Quiet(s, "DecodeFailed")
    ELSE LET r == update(s.config, Launch(s.tree, s.pids, << >>), m.badge, m.body, env.oc)
         IN  Handled([s EXCEPT !.tree = r.st.tree, !.pids = r.st.pids], r.err,
                     << >>, r.st.spawns, << >>, << >>)

get_mmio_arm(s, m, env) ==
    LET r == get_mmio(s.tree, s.pids, s.b, m.badge, m.mr0, env.allocOk, env.capOk)
    IN  Handled([s EXCEPT !.b = r.b], r.err, r.ret, << >>, r.reqs, << >>)

get_irq_arm(s, m, env) ==
    LET r == get_irq(s.tree, s.pids, s.b, m.badge, m.mr0, env.allocOk, env.capOk)
    IN  Handled([s EXCEPT !.b = r.b], r.err, r.ret, << >>, r.reqs, << >>)

scan_platform_arm(s, m, env) ==
    LET st == scan_platform(s.config, Launch(s.tree, s.pids, << >>), env.oc)
    IN  Handled([s EXCEPT !.tree = st.tree, !.pids = st.pids], "Ok",
                << >>, st.spawns, << >>, << >>)

\* A slip: REGISTER_LOGIC is refused unless the sender is a bound driver.
register_logic_armBound(s, m, env) ==
    IF ~m.body_ok THEN Quiet(s, "DecodeFailed")
    ELSE IF m.badge \notin DOMAIN s.pids THEN Quiet(s, "InvalidArgs")
    ELSE LET r == register_logic(s.reg, s.b.cspace, m.body,
                                 IF m.has_cap THEN 1 ELSE 0,
                                 env.allocOk, env.capOk, env.probe, env.partOk)
         IN  Quiet([s EXCEPT !.reg = r.reg, !.b.cspace = r.cspace], r.err)

\* The endpoint is the receive window when the tag has HAS_CAP, else null.
register_logic_arm(s, m, env) ==
    IF ~m.body_ok THEN Quiet(s, "DecodeFailed")
    ELSE LET r == register_logic(s.reg, s.b.cspace, m.body,
                                 IF m.has_cap THEN 1 ELSE 0,
                                 env.allocOk, env.capOk, env.probe, env.partOk)
         IN  Quiet([s EXCEPT !.reg = r.reg, !.b.cspace = r.cspace], r.err)

get_desc_arm(s, m, env) ==
    IF ~m.body_ok THEN Quiet(s, "DecodeFailed")
    ELSE LET r == get_desc(s.tree, m.body)
         IN  Handled(s, r.err, r.ret, << >>, << >>, << >>)

\* ALLOC_LOGIC: the body is (dev_type, criteria); the reply carries the slot.
alloc_logic_arm(s, m, env) ==
    IF ~m.body_ok THEN Quiet(s, "DecodeFailed")
    ELSE LET r == alloc_logic(s.reg, s.b, m.badge, m.body.dev_type, m.body.criteria,
                              env.allocOk, env.capOk)
         IN  Handled([s EXCEPT !.b = r.b], r.err, r.ret, << >>, r.reqs, << >>)

\* QUERY: the body is a DeviceQuery; the reply carries the names.
query_arm(s, m, env) ==
    IF ~m.body_ok THEN Quiet(s, "DecodeFailed")
    ELSE Handled(s, "Ok", query(s.tree, s.reg, m.body), << >>, << >>, << >>)

\* The arm of ipc_dispatch! for a pair the table does not list.
other_arm(s, m, env) == Quiet(s, "InvalidMethod")

\* The table of dispatch, as far as the model's message pools reach: the
\* BLOCK_PROTO arms, ALLOC_LOGIC and QUERY are not drawn by any pool.
dispatch(s, m, env) ==
    CASE m.proto = "KERNEL" /\ m.method = "NOTIFY" -> notify_arm(s, m, env)
      [] m.proto = "DEVICE" /\ m.method = "REPORT" -> report_arm(s, m, env)
      [] m.proto = "DEVICE" /\ m.method = "UPDATE" -> update_arm(s, m, env)
      [] m.proto = "DEVICE" /\ m.method = "GET_MMIO" -> get_mmio_arm(s, m, env)
      [] m.proto = "DEVICE" /\ m.method = "GET_IRQ" -> get_irq_arm(s, m, env)
      [] m.proto = "DEVICE" /\ m.method = "SCAN_PLATFORM" -> scan_platform_arm(s, m, env)
      [] m.proto = "DEVICE" /\ m.method = "REGISTER_LOGIC" -> register_logic_arm(s, m, env)
      [] m.proto = "DEVICE" /\ m.method = "ALLOC_LOGIC" -> alloc_logic_arm(s, m, env)
      [] m.proto = "DEVICE" /\ m.method = "QUERY" -> query_arm(s, m, env)
      [] m.proto = "DEVICE" /\ m.method = "GET_DESC" -> get_desc_arm(s, m, env)
      [] OTHER -> other_arm(s, m, env)

ReplyMsg(tag, mrs) == [tag |-> tag, mrs |-> mrs]

\* A slip: a handler error ends the loop without a reply.
AfterDispatchAbort(h, replyOk) ==
    IF h.res = "Success" THEN [replies |-> << >>, pc |-> "serving"]
    ELSE IF h.res # "Ok" THEN [replies |-> << >>, pc |-> "stopped"]
    ELSE [replies |-> <<ReplyMsg("ok", h.mrs)>>,
          pc |-> IF replyOk THEN "serving" ELSE "stopped"]

\* The rest of a run iteration after dispatch: the replies sent and where
\* the loop goes ("stopped": run returned the error of Reply::reply).
AfterDispatch(h, replyOk) ==
    IF h.res = "Success" THEN [replies |-> << >>, pc |-> "serving"]
    ELSE [replies |-> <<IF h.res = "Ok" THEN ReplyMsg("ok", h.mrs)
                        ELSE ReplyMsg("err", <<h.res>>)>>,
          pc |-> IF replyOk THEN "serving" ELSE "stopped"]

\* The answers that can matter to a message (the others are held at success).
Answers(m) ==
    LET B(on) == IF on THEN BOOLEAN ELSE {TRUE}
        cap == m.proto = "DEVICE" /\ m.method \in {"GET_MMIO", "GET_IRQ", "REGISTER_LOGIC", "ALLOC_LOGIC"}
        rl  == m.proto = "DEVICE" /\ m.method = "REGISTER_LOGIC"
    IN  { Env(AllFail, a, c, pr, po, ak, ro) :
            a \in B(cap), c \in B(cap),
            pr \in IF rl THEN (-1)..MaxParts ELSE {0},
            po \in B(rl), ak \in B(m.proto = "KERNEL"), ro \in BOOLEAN }

\* One iteration of run for a message of the pool msgs.
Serve(msgs) ==
    /\ pc = "serving"
    /\ \E m \in msgs :
          \E e \in Answers(m) :
             \E s0 \in {Mgr(config, tree, pids, Broker(cspace, mmio_caps, irq_caps), reg)} :
                \E oc \in [1..Len(dispatch(s0, m, e).spawns) -> Outcomes] :
                   \E h \in {dispatch(s0, m, [e EXCEPT !.oc = oc])} :
                      \E a \in {AfterDispatch(h, e.replyOk)} :
                         /\ Cardinality(DOMAIN h.s.reg.logical_devices) <= MaxLogic
                         /\ h.s.reg.next_logic_id <= MaxLogic + 1
                         /\ Len(h.s.tree.nodes) <= MaxNodes
                         /\ tree' = h.s.tree
                         /\ pids' = h.s.pids
                         /\ cspace' = h.s.b.cspace
                         /\ mmio_caps' = h.s.b.mmio_caps
                         /\ irq_caps' = h.s.b.irq_caps
                         /\ reg' = h.s.reg
                         /\ pc' = a.pc
                         /\ last' = [Idle EXCEPT !.op = "serve", !.msg = Some(m),
                                        !.badge = m.badge, !.res = h.res,
                                        !.replies = a.replies, !.notes = h.notes,
                                        !.spawns = h.spawns, !.reqs = h.reqs,
                                        !.ret = oc, !.changed = (h.s # s0)]
    /\ UNCHANGED <<config, lds, issued>>

\* endpoint.recv fails: the loop logs and receives again.
RecvError ==
    /\ pc = "serving"
    /\ last' = [Idle EXCEPT !.op = "recv_error"]
    /\ UNCHANGED <<tree, pids, config, pc, cspace, mmio_caps, irq_caps, reg, lds, issued>>

----------------------------------------------------------------------------
(* The loop over its message pools *)

\* The (protocol, method) pairs that dispatch lists.
DispatchTable ==
    { <<"KERNEL", "NOTIFY">>, <<"BLOCK", "GET_CAPACITY">>, <<"BLOCK", "GET_BLOCK_SIZE">>,
      <<"BLOCK", "SETUP_RING">>, <<"DEVICE", "REPORT">>, <<"DEVICE", "UPDATE">>,
      <<"DEVICE", "GET_MMIO">>, <<"DEVICE", "GET_IRQ">>, <<"DEVICE", "SCAN_PLATFORM">>,
      <<"DEVICE", "REGISTER_LOGIC">>, <<"DEVICE", "ALLOC_LOGIC">>, <<"DEVICE", "QUERY">>,
      <<"DEVICE", "GET_DESC">> }

\* Hook targets and subscriber endpoints sent with HOOK.
HookTarget(kind, val) == [kind |-> kind, val |-> val]

\* Subtree lists reported in the loop: one element, a two-level subtree, and
\* a list whose second element refers to itself.
LoopReports ==
    LET d == DeviceDesc("virtio0", <<"virtio-net">>, <<MMIORegion(784, 4097)>>, <<32>>)
    IN  { <<DeviceDescNode(USIZE_MAX, d)>>,
          <<DeviceDescNode(USIZE_MAX, d), DeviceDescNode(1, d)>> }

\* Messages of the loop: pairs outside the table, notifications for unknown
\* interrupts, and requests to the tree, the broker and the registry from
\* bound and unbound senders.
LoopMsgs ==
    { Msg("DEVICE", "HOOK", 1, TRUE, 0, HookTarget("Type", "Net"), TRUE),
      Msg("DEVICE", "GET_LOGIC_DESC", 0, FALSE, 0, "net0", TRUE),
      Msg("OTHER", "PING", 0, FALSE, 0, << >>, TRUE),
      Msg("KERNEL", "NOTIFY", 99, FALSE, 0, << >>, TRUE),
      Msg("DEVICE", "SCAN_PLATFORM", 0, FALSE, 0, << >>, TRUE),
      Msg("DEVICE", "GET_DESC", 0, FALSE, 0, "nosuch", TRUE),
      Msg("DEVICE", "GET_DESC", 0, FALSE, 0, "acpi", TRUE),
      Msg("DEVICE", "REGISTER_LOGIC", 0, FALSE, 0,
          LogicDeviceDesc("", DevType("Net", None), None), TRUE),
      Msg("DEVICE", "REPORT", 1, FALSE, 0, << >>, FALSE) }
    \cup { Msg("DEVICE", mt, b, FALSE, 1, << >>, TRUE) :
             mt \in {"GET_MMIO", "GET_IRQ"}, b \in 0..1 }
    \cup { Msg("DEVICE", "REPORT", b, FALSE, 0, ns, TRUE) :
             b \in 1..MaxPid, ns \in LoopReports }
    \cup { Msg("DEVICE", "UPDATE", b, FALSE, 0, << >>, TRUE) : b \in 0..1 }

ServeLoop == Serve(LoopMsgs)

NextLoop ==
    \/ SysInit
    \/ ServeLoop
    \/ RecvError

SpecLoop == Init /\ [][NextLoop]_vars

\* REGISTER_LOGIC requests that carry an endpoint capability, from every badge.
RegisterMsgs ==
    { Msg("DEVICE", "REGISTER_LOGIC", b, TRUE, 0, d, TRUE) :
        b \in Badges,
        d \in { LogicDeviceDesc("", DevType(k, None), None) : k \in {"RawBlock", "Net"} } }

ServeRegister == Serve(RegisterMsgs)

NextRegister ==
    \/ SysInit
    \/ ServeRegister

SpecRegister == Init /\ [][NextRegister]_vars

\* Hook subscriptions and the registrations they are to be told about.
HookMsgs ==
    { Msg("DEVICE", "HOOK", 1, TRUE, 0, HookTarget("Type", k), TRUE) :
        k \in {"Net", "RawBlock"} }
    \cup { Msg("DEVICE", "REGISTER_LOGIC", 0, TRUE, 0,
                LogicDeviceDesc("", DevType(k, None), None), TRUE) :
              k \in {"Net", "RawBlock"} }

ServeHook == Serve(HookMsgs)

NextHook ==
    \/ SysInit
    \/ ServeHook

SpecHook == Init /\ [][NextHook]_vars

\* Manifests of the boot scenarios: a single platform driver, a single
\* driver for another device, and the three-driver manifest.
BootManifests ==
    { << DriverEntry("platd", <<"acpi">>) >>,
      << DriverEntry("platd", <<"dtb", "acpi">>) >>,
      << DriverEntry("netd", <<"virtio-net">>) >> } \cup ManifestPool

BootInit == SysInitFrom(BootManifests)

NextBoot ==
    \/ BootInit
    \/ ScanPlatform
    \/ GetDesc
    \/ GetMmio

SpecBoot == Init /\ [][NextBoot]_vars

\* Registrations that fill the registry (a disk with its partition, a
\* network device) for the lookups below.
FillMsgs ==
    { Msg("DEVICE", "REGISTER_LOGIC", 0, TRUE, 0,
          LogicDeviceDesc("", DevType(k, None), None), TRUE) :
        k \in {"RawBlock", "Net"} }

\* The filters sent with QUERY.
QueryPool ==
    { DeviceQuery(n, c, d) :
        n \in {None, Some("disk")}, c \in {<< >>, <<"net0">>},
        d \in {None, Some("Block")} }

QueryMsgs ==
    FillMsgs \cup { Msg("DEVICE", "QUERY", 2, FALSE, 0, q, TRUE) : q \in QueryPool }

ServeQuery == Serve(QueryMsgs)

NextQuery ==
    \/ SysInit
    \/ ServeQuery

SpecQuery == Init /\ [][NextQuery]_vars

\* (dev_type, criteria) pairs sent with ALLOC_LOGIC.
AllocBody(dev_type, criteria) == [dev_type |-> dev_type, criteria |-> criteria]

AllocPool ==
    { AllocBody(TypeCode(k), n) : k \in {"RawBlock", "Net", "Block"},
                                  n \in {"disk0", "net0", "disk0p1"} }

AllocMsgs ==
    FillMsgs \cup { Msg("DEVICE", "ALLOC_LOGIC", 2, FALSE, 0, a, TRUE) : a \in AllocPool }

ServeAlloc == Serve(AllocMsgs)

NextAlloc ==
    \/ SysInit
    \/ ServeAlloc

SpecAlloc == Init /\ [][NextAlloc]_vars

\* Manifests for driver matching: up to MaxDrivers entries, each with one
\* of a few compatible lists.
MatchEntries ==
    { DriverEntry(n, c) : n \in {"drvA", "drvB"},
                          c \in {<< >>, <<"acpi">>, <<"pci">>, <<"pci", "acpi">>} }

MatchManifests == UNION { [1..n -> MatchEntries] : n \in 0..MaxDrivers }

InitMatch ==
    /\ tree = TreeNew
    /\ pids = << >>
    /\ config \in MatchManifests
    /\ pc = "match"
    /\ cspace = 0
    /\ mmio_caps = << >>
    /\ irq_caps = << >>
    /\ reg = RegNew
    /\ lds = LdsNew
    /\ issued = {}
    /\ last = Idle

\* match_driver for a device name and compatible list; last.name and
\* last.ret keep the two arguments, last.desc the result.
MatchDriver ==
    /\ pc = "match"
    /\ \E dev_name \in {"acpi", "nic"},
          dev_compat \in {<< >>, <<"pci">>, <<"usb", "pci">>} :
          last' = [Idle EXCEPT !.op = "match_driver", !.name = dev_name,
                               !.ret = dev_compat,
                               !.desc = match_driver(config, dev_name, dev_compat)]
    /\ UNCHANGED <<tree, pids, config, pc, cspace, mmio_caps, irq_caps, reg, lds, issued>>

NextMatch == MatchDriver

SpecMatch == InitMatch /\ [][NextMatch]_vars

\* Manifests for starting drivers: the three-driver manifest, one that
\* lacks a platform driver, and an empty one.
StartManifests ==
    ManifestPool \cup { << DriverEntry("netd", <<"virtio-net">>) >>, << >> }

InitStart ==
    /\ tree = TreeNew
    /\ pids = << >>
    /\ config \in StartManifests
    /\ pc = "start"
    /\ cspace = 0
    /\ mmio_caps = << >>
    /\ irq_caps = << >>
    /\ reg = RegNew
    /\ lds = LdsNew
    /\ issued = {}
    /\ last = Idle

\* A node is added to the tree (in state Ready).
StartInsert ==
    /\ pc = "start"
    /\ Len(tree.nodes) < MaxTreeNodes
    /\ \E p \in {None} \cup { Some(h) : h \in Handles(tree) }, d \in DescPool :
          /\ tree' = insert(tree, p, d).tree
          /\ last' = [Idle EXCEPT !.op = "insert"]
    /\ UNCHANGED <<pids, config, pc, cspace, mmio_caps, irq_caps, reg, lds, issued>>

\* start_driver(id) with the process manager's answer; last.mount is id,
\* last.ret the answer, last.spawns the requests issued.
StartDriver ==
    /\ pc = "start"
    /\ \E id \in Handles(tree), answer \in Outcomes :
          \E r \in {start_driver(config, Launch(tree, pids, << >>), id, <<answer>>)} :
             /\ tree' = r.st.tree
             /\ pids' = r.st.pids
             /\ last' = [Idle EXCEPT !.op = "start_driver", !.mount = Some(id),
                                     !.res = r.err, !.ret = <<answer>>,
                                     !.spawns = r.st.spawns,
                                     !.changed = (r.st.tree # tree \/ r.st.pids # pids)]
    /\ UNCHANGED <<config, pc, cspace, mmio_caps, irq_caps, reg, lds, issued>>

NextStart ==
    \/ StartInsert
    \/ StartDriver

SpecStart == InitStart /\ [][NextStart]_vars

----------------------------------------------------------------------------
(* REPORT of subtrees of up to MaxShape elements to a booted server: every  *)
(* shape of a three-element list occurs.                                   *)

MaxShape == 3        \* elements of one reported subtree
MaxShapeNodes == 4   \* nodes the manager's tree may hold

\* Flat subtree lists of one to MaxShape elements: every parent field is
\* usize::MAX or an index below MaxShape; the descriptors run through the
\* pool from any starting point.
ShapeLists(descs) ==
    LET pool == PoolSeq(descs)
    IN  UNION { { [k \in 1..n |->
                     DeviceDescNode(ps[k], pool[((s + k) % Len(pool)) + 1])]
                  : ps \in [1..n -> {USIZE_MAX} \cup 0..(MaxShape - 1)],
                    s \in 0..(Len(pool) - 1) }
                : n \in 1..MaxShape }

\* REPORT with a list of ShapeLists.
ReportShape ==
    /\ pc = "serving"
    /\ \E badge \in Badges, ns \in ShapeLists(DescPool) :
          /\ Len(tree.nodes) + Len(ns) <= MaxShapeNodes
          /\ \E st0 \in { Launch(tree, pids, << >>) } :
             \E n \in { Len(report(config, st0, badge, ns,
                                    [k \in 1..(MaxShapeNodes + 1) |-> 0]).st.spawns) } :
             \E oc \in [1..n -> Outcomes] :
             \E r \in { report(config, st0, badge, ns, oc) } :
                /\ tree' = r.st.tree
                /\ pids' = r.st.pids
                /\ last' = [Idle EXCEPT !.op = "report", !.badge = badge,
                                        !.nodes = IF badge \in DOMAIN pids THEN ns
                                                  ELSE << >>,
                                        !.res = r.err, !.made = r.made,
                                        !.spawns = r.st.spawns]
    /\ UNCHANGED <<config, pc, cspace, mmio_caps, irq_caps, reg, lds, issued>>

NextShape ==
    \/ SysInit
    \/ ReportShape

SpecShape == Init /\ [][NextShape]_vars

----------------------------------------------------------------------------
(* Interrupts: a device with an interrupt is reported, its driver asks for *)
(* the handler, and notifications arrive.                                  *)

\* The interrupt of the reported device and one that no descriptor lists.
DeviceIrq == 32
StrayIrq == 99

IrqMsgs ==
    { Msg("DEVICE", "REPORT", 1, FALSE, 0,
          << DeviceDescNode(USIZE_MAX,
                DeviceDesc("virtio0", <<"virtio-net">>, <<MMIORegion(784, 4097)>>,
                           <<DeviceIrq>>)) >>, TRUE) }
    \cup { Msg("DEVICE", "GET_IRQ", b, FALSE, i, << >>, TRUE) :
             b \in 1..MaxPid, i \in 0..1 }
    \cup { Msg("KERNEL", "NOTIFY", n, FALSE, 0, << >>, TRUE) :
             n \in {DeviceIrq, StrayIrq} }

ServeIrq == Serve(IrqMsgs)

NextIrq ==
    \/ SysInit
    \/ ServeIrq

SpecIrq == Init /\ [][NextIrq]_vars

----------------------------------------------------------------------------
(* REGISTER_LOGIC with and without a badge in the descriptor, and the      *)
(* receive window after it.                                                *)

\* The badge a descriptor may ask for.
DescBadge == 7

KeepDescPool ==
    { LogicDeviceDesc("", DevType(k, None), bg) :
        k \in {"Net", "Uart"}, bg \in {None, Some(DescBadge)} }

RegisterKeep ==
    /\ pc = "logic"
    /\ \E desc \in KeepDescPool, endpoint \in 0..1, allocOk \in BOOLEAN,
          capOk \in BOOLEAN :
          /\ Cardinality(DOMAIN reg.logical_devices) + 1 <= MaxLogic
          /\ \E r \in { register_logic(reg, cspace, desc, endpoint, allocOk, capOk,
                                         0, TRUE) } :
             \E k \in { KeepEndpoint(cspace, desc, endpoint, allocOk, capOk) } :
                /\ reg' = r.reg
                /\ cspace' = r.cspace
                /\ last' = [Idle EXCEPT !.op = "register_logic", !.res = r.err,
                                        !.allocs = r.allocs, !.desc = Some(desc),
                                        !.before = reg.next_logic_id,
                                        !.recv = Some(k)]
    /\ UNCHANGED <<tree, pids, config, pc, mmio_caps, irq_caps, lds, issued>>

NextKeep == RegisterKeep

SpecKeep == InitLogic /\ [][NextKeep]_vars

----------------------------------------------------------------------------
(* REGISTER_LOGIC of devices that name a physical node, or no node, as     *)
(* their parent.                                                           *)

ParentMsgs ==
    { Msg("DEVICE", "REGISTER_LOGIC", 0, TRUE, 0,
          LogicDeviceDesc(pn, DevType(k, None), None), TRUE) :
        pn \in {"acpi", "nosuch"}, k \in {"Net", "Block"} }

ServeParent == Serve(ParentMsgs)

NextParent ==
    \/ SysInit
    \/ ServeParent

SpecParent == Init /\ [][NextParent]_vars

----------------------------------------------------------------------------
(* Properties of the DeviceTree under its own API (SpecTree) *)

\* C1: every DeviceId that insert returned still resolves after any later
\* inserts and mounts: get_node gives Some node, the node's id is the handle,
\* the slot's generation is the handle's generation, and the node's
\* descriptor is the one passed to that insert.
HandlesStable ==
    \A h \in issued :
        LET n == get_node(tree, h.id)
        IN  /\ n # None
            /\ n[1].id = h.id
            /\ h.id.index < Len(tree.generations)
            /\ tree.generations[h.id.index + 1] = h.id.generation
            /\ n[1].desc = h.desc

\* A handle issued by an earlier call is still held after a later mount has
\* added nodes to the tree.
HandlesStableWitness ==
    /\ last.op = "mount_subtree"
    /\ last.made # << >>
    /\ \E h \in issued :
          /\ \A k \in DOMAIN last.made : last.made[k].id # h.id
          /\ get_node(tree, h.id) # None

\* A node hangs under a resolving parent that lists it among its children.
HasListingParent(t, n) ==
    /\ n.parent # None
    /\ contains(t, n.parent[1])
    /\ InSeq(n.id, get_node(t, n.parent[1])[1].children)

\* Every node other than the root has a listing parent.
OnlyRootIsParentless(t) ==
    \A k \in DOMAIN t.nodes :
        t.nodes[k] # None =>
            \/ t.root = Some(t.nodes[k][1].id)
            \/ HasListingParent(t, t.nodes[k][1])

\* C3: after any sequence of insert calls, several with parent None among
\* them, the root once set never changes, and every node other than the root
\* has a parent that resolves and lists it; no parentless node exists beside
\* the root.
SingleRootedTree ==
    [][ /\ (tree.root # None => tree'.root = tree.root)
        /\ OnlyRootIsParentless(tree') ]_vars

\* C8: insert with parent Some(id), id not resolving to a live node, returns
\* InvalidArgs and leaves nodes, generations, free list and root as they were.
InsertDanglingParentRejected ==
    [][ (/\ last'.op = "insert"
         /\ last'.parent # None
         /\ ~contains(tree, last'.parent[1]))
        => (last'.res = "InvalidArgs" /\ last'.ret = << >> /\ tree' = tree) ]_vars

\* An insert under a handle that does not resolve in a tree that holds nodes.
InsertDanglingParentWitness ==
    /\ last.op = "insert"
    /\ last.parent # None
    /\ ~contains(tree, last.parent[1])
    /\ last.res = "InvalidArgs"
    /\ ~last.changed
    /\ tree.nodes # << >>

\* Element k (1-based) of a flat list refers to no earlier element: its parent
\* field is not usize::MAX and not an index below its own.
BadParentRef(ns, k) == ns[k].parent # USIZE_MAX /\ ns[k].parent >= k - 1

\* C9: mount_subtree returns InvalidArgs whenever some element's parent field
\* is neither usize::MAX nor the index of an earlier element of the list
\* (forward, self or out of range), and whenever mount_point does not resolve.
MountDanglingRejected ==
    [][ (/\ last'.op = "mount_subtree"
         /\ \/ ~contains(tree, last'.mount[1])
            \/ \E k \in DOMAIN last'.nodes : BadParentRef(last'.nodes, k))
        => last'.res = "InvalidArgs" ]_vars

\* A mount on a live mount point whose second element refers to itself or
\* beyond, rejected after the first element was mounted.
MountDanglingWitness ==
    /\ last.op = "mount_subtree"
    /\ last.res = "InvalidArgs"
    /\ contains(tree, last.mount[1])
    /\ Len(last.nodes) = 2
    /\ ~BadParentRef(last.nodes, 1)
    /\ BadParentRef(last.nodes, 2)
    /\ Len(last.made) = 1

----------------------------------------------------------------------------
(* Properties of the server *)

\* The nodes of the tree's occupied slots.
LiveNodes(t) == { t.nodes[k][1] : k \in { j \in DOMAIN t.nodes : t.nodes[j] # None } }

\* How often an id occurs in a children list.
Occurrences(children, id) == Cardinality({ k \in DOMAIN children : children[k] = id })

\* C2: in every reachable state, for every node whose parent is Some(p), p
\* resolves to a node whose children list holds the node's id exactly once.
ChildListedOnce ==
    \A n \in LiveNodes(tree) :
        n.parent # None =>
            /\ contains(tree, n.parent[1])
            /\ Occurrences(get_node(tree, n.parent[1])[1].children, n.id) = 1

\* A report has mounted a two-level subtree: its second element hangs under
\* its first, which hangs under the reporting driver's node.
ChildListedOnceWitness ==
    /\ last.op = "report"
    /\ last.res = "Ok"
    /\ Len(last.made) = 2
    /\ get_node(tree, last.made[2].id)[1].parent = Some(last.made[1].id)
    /\ get_node(tree, last.made[1].id)[1].parent = Some(tree.root[1])

\* C4: between two message handlings every key of pids maps to a DeviceId
\* that resolves to a node in state Running.
PidsMapToRunning ==
    \A p \in DOMAIN pids :
        /\ contains(tree, pids[p])
        /\ get_node(tree, pids[p])[1].state = "Running"

\* A scan has issued spawn requests, one failed and one succeeded: a node is
\* in Error, another is bound to a pid.
PidsMapToRunningWitness ==
    /\ last.op = "scan_platform"
    /\ last.spawns # << >>
    /\ pids # << >>
    /\ \E n \in LiveNodes(tree) : n.state = "Error"

\* C6: a SCAN_PLATFORM that directly follows a SCAN_PLATFORM issues no spawn
\* request and changes no node state or binding, and every spawn request a
\* scan issues is for a node that was Ready (never Running or Error).
ScanIdempotent ==
    last.op = "scan_platform" =>
        /\ \A k \in DOMAIN last.spawns : last.spawns[k].state = "Ready"
        /\ last.rep => (last.spawns = << >> /\ ~last.changed)

\* The second of two scans in a row, the first of which issued a spawn
\* request, over a tree that holds a Running and an Error node.
ScanIdempotentWitness ==
    /\ last.op = "scan_platform"
    /\ last.rep
    /\ last.before > 0
    /\ \E n \in LiveNodes(tree) : n.state = "Error"
    /\ \E n \in LiveNodes(tree) : n.state = "Running"

\* C7: after a REPORT from a bound driver succeeded, GET_DESC of the name of
\* a reported element returns the descriptor reported under that name (same
\* name, compatible, mmio and irq), whatever the tree held before.
ReportGetDescRoundTrip ==
    [][ (/\ last.op = "report"
         /\ last.res = "Ok"
         /\ last'.op = "get_desc"
         /\ \E k \in DOMAIN last.made : last.made[k].desc.name = last'.name)
        => (/\ last'.res = "Ok"
            /\ \E k \in DOMAIN last.made :
                  /\ last.made[k].desc.name = last'.name
                  /\ last'.desc = Some(last.made[k].desc)) ]_vars

\* The caller of a resource request is unbound, or (for GET_MMIO) its region
\* index is not below the number of mmio regions of its node.
BadResourceRequest(t, p, l) ==
    /\ l.op \in {"get_mmio", "get_irq"}
    /\ \/ l.badge \notin DOMAIN p
       \/ /\ l.op = "get_mmio"
          /\ contains(t, p[l.badge])
          /\ l.idx >= Len(get_node(t, p[l.badge])[1].desc.mmio)

\* C10: GET_MMIO with a region index at or beyond the number of mmio regions
\* of the caller's node, and GET_MMIO or GET_IRQ from a badge that is no key
\* of pids, fail with InvalidArgs, allocate no CSpace slot, send no request
\* to the kernel or the resource manager and change no cache.
BadResourceRequestRejected ==
    [][ BadResourceRequest(tree, pids, last')
        => (/\ last'.res = "InvalidArgs"
            /\ last'.allocs = 0
            /\ last'.reqs = << >>
            /\ last'.ret = << >>
            /\ UNCHANGED <<cspace, mmio_caps, irq_caps>>) ]_vars

\* GET_MMIO from a bound driver with region_index = mmio.len() >= 1, while
\* slots are still free.
BadResourceRequestWitness ==
    /\ last.op = "get_mmio"
    /\ last.badge \in DOMAIN pids
    /\ contains(tree, pids[last.badge])
    /\ last.idx = Len(get_node(tree, pids[last.badge])[1].desc.mmio)
    /\ last.idx >= 1
    /\ last.res = "InvalidArgs"
    /\ cspace < MaxSlots

----------------------------------------------------------------------------
(* Properties of the logic registries *)

\* No two entries of a registry map carry the same assigned name.
NamesUnique(devices) ==
    \A i, j \in DOMAIN devices : i # j => devices[i].name # devices[j].name

\* C5: after any sequence of registrations, of any mix of device types and
\* parent names, several Platform devices among them, no two entries of the
\* logic-device registry have the same assigned name.
AssignedNamesUnique == NamesUnique(lds.devices) /\ NamesUnique(reg.logical_devices)

----------------------------------------------------------------------------
(* Properties of the receive / dispatch / reply loop *)

\* The message the last loop iteration served.
Served(l) == l.op = "serve" /\ l.msg # None

\* C11: a message whose (protocol, method) pair is not in the dispatch table
\* is answered with one error reply carrying InvalidMethod, changes no
\* component state, and the server goes on to the next receive.
UnknownMethodRejected ==
    (Served(last) /\ <<last.msg[1].proto, last.msg[1].method>> \notin DispatchTable)
    => /\ last.res = "InvalidMethod"
       /\ last.replies = <<ReplyMsg("err", <<"InvalidMethod">>)>>
       /\ ~last.changed
       /\ pc = "serving"

\* C15: a (KERNEL, NOTIFY) message whose badge is an interrupt number absent
\* from the IRQ cache is handled without any reply (the handler yields the
\* Success sentinel), changes no state, and the loop receives again.
UnknownIrqNotReplied ==
    (/\ Served(last)
     /\ last.msg[1].proto = "KERNEL" /\ last.msg[1].method = "NOTIFY"
     /\ last.msg[1].badge \notin DOMAIN irq_caps)
    => /\ last.res = "Success"
       /\ last.replies = << >>
       /\ ~last.changed
       /\ pc = "serving"

\* C16: for every message whose handler returns an error other than the
\* Success sentinel the server sends exactly one reply, error-tagged with
\* mr[0] the error, and goes on to the next receive; the loop never returns.
HandlerErrorReplied ==
    (Served(last) /\ last.res \notin {"Ok", "Success"})
    => /\ last.replies = <<ReplyMsg("err", <<last.res>>)>>
       /\ pc = "serving"

\* The manager as the handlers see it in the current state.
Current == Mgr(config, tree, pids, Broker(cspace, mmio_caps, irq_caps), reg)

\* C12: REGISTER_LOGIC with an endpoint capability gives, for a sender whose
\* badge is bound to no driver, exactly the result, registry and capability
\* space it gives for a bound driver: the badge is not checked.
RegisterLogicBadgeBlind ==
    pc = "serving" =>
        \A m \in RegisterMsgs : \A b \in Badges :
            (m.badge \in DOMAIN pids /\ b \notin DOMAIN pids) =>
                \A e \in Answers(m) :
                    dispatch(Current, [m EXCEPT !.badge = b], e) = dispatch(Current, m, e)

\* A registration from an unbound badge succeeded while a driver was bound.
RegisterLogicUnboundWitness ==
    /\ Served(last)
    /\ last.msg[1].method = "REGISTER_LOGIC" /\ last.msg[1].has_cap
    /\ pids # << >>
    /\ last.badge \notin DOMAIN pids
    /\ last.res = "Ok"
    /\ last.changed
    /\ \E id \in DOMAIN reg.logical_devices :
          reg.logical_devices[id].desc = last.msg[1].body

----------------------------------------------------------------------------
(* Properties of the resource broker's caches *)

\* C13: MMIO caching: a successful GET_MMIO for a base address that the
\* request before it already acquired returns the same slot, allocates no
\* slot and makes no capability request (at most one request per base_addr).
MmioAcquiredOnce ==
    [][ (/\ last.op = "get_mmio" /\ last.res = "Ok"
         /\ last'.op = "get_mmio" /\ last'.res = "Ok"
         /\ last'.ret[2] = last.ret[2])
        => (/\ last'.ret[1] = last.ret[1]
            /\ last'.allocs = 0
            /\ last'.reqs = << >>) ]_vars

\* C14: IRQ brokerage: a successful GET_IRQ that requests the handler
\* capability also enables the interrupt at priority 1, and a successful
\* GET_IRQ for the interrupt the request before it acquired returns the same
\* slot with no capability request and no enable.
IrqAcquiredOnce ==
    [][ (last'.op = "get_irq" /\ last'.res = "Ok")
        => (/\ last'.reqs # << >>
                => \E i \in DOMAIN last'.reqs : last'.reqs[i].kind = "irq_enable"
            /\ (/\ last.op = "get_irq" /\ last.res = "Ok"
                 /\ last.badge = last'.badge /\ last.idx = last'.idx)
                => (/\ last'.ret = last.ret
                    /\ last'.allocs = 0
                    /\ last'.reqs = << >>)) ]_vars

----------------------------------------------------------------------------
(* Properties of driver spawning *)

\* C17: driver spawns are deferred: while SCAN_PLATFORM, REPORT or UPDATE is
\* being handled no spawn request is issued to the process manager; Ready
\* nodes are only queued and spawned at the top of the next loop iteration.
SpawnsDeferred ==
    (/\ Served(last)
     /\ last.msg[1].proto = "DEVICE"
     /\ last.msg[1].method \in {"SCAN_PLATFORM", "REPORT", "UPDATE"})
    => last.spawns = << >>

----------------------------------------------------------------------------
(* Properties of hooks *)

\* A hook target matches a registered logic device.
HookMatches(target, entry) ==
    \/ target.kind = "Type" /\ target.val = entry.desc.dev_type.kind
    \/ target.kind = "Endpoint" /\ target.val = entry.ep

IsServed(l, method) ==
    Served(l) /\ l.msg[1].proto = "DEVICE" /\ l.msg[1].method = method

\* C18: a successful REGISTER_LOGIC fires one NOTIFY_HOOK per matching
\* hook, after the entry is in the registry and before the reply: a device
\* registered right after a subscription to its type was requested sends at
\* least that subscription's notification.
RegisterFiresHooks ==
    [][ (/\ IsServed(last, "HOOK")
         /\ IsServed(last', "REGISTER_LOGIC") /\ last'.res = "Ok"
         /\ last.msg[1].body = HookTarget("Type", last'.msg[1].body.dev_type.kind))
        => last'.notes # << >> ]_vars

\* C19: HOOK appends the subscription to the hook table and replays one
\* notification per registered logic device that matches it; a second HOOK
\* for the same target appends again and replays again once per device.
HookAppendsAndReplays ==
    [][ IsServed(last', "HOOK")
        => (/\ last'.res = "Ok"
            /\ Len(reg'.hooks) = Len(reg.hooks) + 1
            /\ reg'.hooks[Len(reg'.hooks)][1] = last'.msg[1].body
            /\ Len(last'.notes)
                  = Cardinality({ id \in DOMAIN reg.logical_devices :
                                    HookMatches(last'.msg[1].body,
                                                reg.logical_devices[id]) })) ]_vars

----------------------------------------------------------------------------
(* The boot scenario *)

\* init has just returned Ok for an ACPI platform without an initrd, with a
\* manifest whose only driver lists "acpi", and the spawn it made succeeded.
AcpiBooted ==
    /\ last.op = "init" /\ pc = "serving"
    /\ last.boot = Some(BootInfo("ACPI", 0))
    /\ Len(config) = 1 /\ InSeq("acpi", config[1].compatible)
    /\ Len(last.ret) = 1 /\ last.ret[1] > 0

\* C20: after that boot the tree holds exactly one node, named "acpi", with
\* the boot-info region as its only mmio entry; the node is the root, its
\* state is Running, and pids maps the pid spawn returned to the root id.
BootScenario ==
    AcpiBooted
    => /\ Len(tree.nodes) = 1 /\ tree.nodes[1] # None
       /\ tree.nodes[1][1].desc.name = "acpi"
       /\ tree.nodes[1][1].desc.mmio
             = <<MMIORegion(last.boot[1].addr, last.boot[1].size)>>
       /\ tree.root = Some(tree.nodes[1][1].id)
       /\ tree.nodes[1][1].state = "Running"
       /\ Len(last.spawns) = 1
       /\ pids = (last.ret[1] :> tree.root[1])

BootScenarioWitness ==
    /\ AcpiBooted
    /\ config = << DriverEntry("platd", <<"acpi">>) >>
    /\ DOMAIN pids = {last.ret[1]}

----------------------------------------------------------------------------
(* Properties of the logic registry's lookups *)

Contains(n, q) ==
    \E i \in 1..(Len(n) - Len(q) + 1) : SubSeq(n, i, i + Len(q) - 1) = q

\* An entry satisfies every filter of a query.
QueryMatches(entry, q) ==
    /\ q.name # None => Contains(entry.name, q.name[1])
    /\ q.compatible # << >> => InSeq(entry.name, q.compatible)
    /\ q.dev_type # None => entry.desc.dev_type.kind = q.dev_type[1]

RECURSIVE MatchingNamesFrom(_, _, _)
MatchingNamesFrom(devices, k, q) ==
    IF \A id \in DOMAIN devices : id < k THEN << >>
    ELSE IF k \in DOMAIN devices /\ QueryMatches(devices[k], q)
         THEN <<devices[k].name>> \o MatchingNamesFrom(devices, k + 1, q)
         ELSE MatchingNamesFrom(devices, k + 1, q)

\* C21: QUERY returns exactly the assigned names of the registry entries
\* that satisfy all given filters together (name substring, compatible
\* equality, dev_type variant), in registry order, and nothing else.
QueryFiltersConjunctive ==
    (IsServed(last, "QUERY") /\ last.res = "Ok")
    => last.replies[1].mrs = MatchingNamesFrom(reg.logical_devices, 1, last.msg[1].body)

\* C22: ALLOC_LOGIC(dev_type, criteria) returns a capability minted with
\* ALL rights and the caller's badge from the stored endpoint of the entry
\* of that type whose assigned name is criteria; with no such entry it
\* fails with NotFound, allocates no slot and changes no state.
AllocLogicMints ==
    IsServed(last, "ALLOC_LOGIC")
    => LET a == last.msg[1].body
           ms == AllocMatches(reg, a.dev_type, a.criteria)
       IN  IF ms = {}
           THEN last.res = "NotFound" /\ ~last.changed /\ last.reqs = << >>
           ELSE last.res = "Ok"
                => \E id \in ms :
                      last.reqs = <<MintReq(reg.logical_devices[id].ep,
                                            last.replies[1].mrs[1], last.badge, "ALL")>>

----------------------------------------------------------------------------
(* Properties of driver matching and starting *)

\* A manifest entry matches a device.
EntryMatches(entry, dev_name, dev_compat) ==
    \/ InSeq(dev_name, entry.compatible)
    \/ \E j \in DOMAIN dev_compat : InSeq(dev_compat[j], entry.compatible)

\* C23: driver matching returns the name of the first manifest entry, in
\* manifest order, whose compatible list holds the device name or any of
\* the device's compatible strings, and no match exactly when no entry
\* satisfies that; an earlier entry matching through the compatible list
\* wins over a later one matching through the name.
FirstManifestEntryWins ==
    last.op = "match_driver"
    => LET ks == { k \in DOMAIN config : EntryMatches(config[k], last.name, last.ret) }
       IN  IF ks = {} THEN last.desc = None
           ELSE last.desc = Some(config[Least(ks)].name)

\* An earlier entry matched through the compatible list only, a later one
\* through the device name, and the earlier one was returned.
FirstManifestEntryWitness ==
    /\ last.op = "match_driver"
    /\ Len(config) = 2
    /\ config[1].name # config[2].name
    /\ ~InSeq(last.name, config[1].compatible)
    /\ EntryMatches(config[1], last.name, last.ret)
    /\ InSeq(last.name, config[2].compatible)
    /\ last.desc = Some(config[1].name)

\* Some manifest entry matches the node.
HasDriver(cfg, node) ==
    \E k \in DOMAIN cfg : EntryMatches(cfg[k], node.desc.name, node.desc.compatible)

\* C24: start(id) on a node that is not Ready, or on a Ready node that no
\* manifest driver matches, returns Ok, issues no spawn request and leaves
\* the node's state, pids and the rest of the tree unchanged.
StartSkips ==
    [][ (/\ last'.op = "start_driver"
         /\ contains(tree, last'.mount[1])
         /\ \/ get_node(tree, last'.mount[1])[1].state # "Ready"
            \/ ~HasDriver(config, get_node(tree, last'.mount[1])[1]))
        => (/\ last'.res = "Ok"
            /\ last'.spawns = << >>
            /\ tree' = tree
            /\ pids' = pids) ]_vars

\* start was called on a Ready node without a driver, beside a node that an
\* earlier start left Running, and the node is still Ready.
StartSkipsWitness ==
    /\ last.op = "start_driver"
    /\ contains(tree, last.mount[1])
    /\ get_node(tree, last.mount[1])[1].state = "Ready"
    /\ ~HasDriver(config, get_node(tree, last.mount[1])[1])
    /\ last.res = "Ok" /\ last.spawns = << >>
    /\ \E n \in LiveNodes(tree) : n.state = "Running"

\* C25: start(id) on a Ready node with a matching driver issues exactly one
\* spawn request; answered Ok(p), the node becomes Running and pids[p] = id;
\* answered with an error, the node becomes Error, pids gets no entry and
\* the error is returned.
StartSpawnsOnce ==
    [][ (/\ last'.op = "start_driver"
         /\ contains(tree, last'.mount[1])
         /\ get_node(tree, last'.mount[1])[1].state = "Ready"
         /\ HasDriver(config, get_node(tree, last'.mount[1])[1]))
        => (/\ Len(last'.spawns) = 1
            /\ last'.spawns[1].id = last'.mount[1]
            /\ IF last'.ret[1] > 0
               THEN /\ last'.res = "Ok"
                    /\ get_node(tree', last'.mount[1])[1].state = "Running"
                    /\ pids' = MapInsert(pids, last'.ret[1], last'.mount[1])
               ELSE /\ last'.res = "SpawnFailed"
                    /\ get_node(tree', last'.mount[1])[1].state = "Error"
                    /\ pids' = pids) ]_vars

\* A spawn failed for one node after another node's spawn had succeeded.
StartSpawnsOnceWitness ==
    /\ last.op = "start_driver"
    /\ last.res = "SpawnFailed"
    /\ Len(last.spawns) = 1
    /\ get_node(tree, last.mount[1])[1].state = "Error"
    /\ pids # << >>
    /\ \A p \in DOMAIN pids : pids[p] # last.mount[1]

\* C26: Error is terminal: once a node's state is Error no request changes
\* its state again, and no further spawn request is issued for it.
ErrorIsTerminal ==
    [][ \A n \in LiveNodes(tree) :
          n.state = "Error"
          => (/\ contains(tree', n.id)
              /\ get_node(tree', n.id)[1].state = "Error"
              /\ \A k \in DOMAIN last'.spawns : last'.spawns[k].id # n.id) ]_vars

\* A request has issued a spawn request while another node, not among the
\* nodes it tried to start, is in Error.
ErrorIsTerminalWitness ==
    /\ Served(last)
    /\ last.msg[1].method \in {"SCAN_PLATFORM", "REPORT", "UPDATE"}
    /\ last.spawns # << >>
    /\ \E n \in LiveNodes(tree) :
          /\ n.state = "Error"
          /\ \A k \in DOMAIN last.spawns : last.spawns[k].id # n.id

\* C27: UPDATE from a badge bound to node n replaces n's compatible list
\* with the supplied list and sets n's state to Ready (a spawn candidate
\* again), and leaves n's name, mmio, irq, parent, children and every other
\* node unchanged; UPDATE from an unbound badge fails with InvalidArgs and
\* changes nothing.
UpdateFrame ==
    [][ IsServed(last', "UPDATE")
        => IF last'.badge \in DOMAIN pids
           THEN LET id == pids[last'.badge]
                IN  /\ last'.res = "Ok"
                    /\ Len(tree'.nodes) = Len(tree.nodes)
                    /\ \A k \in DOMAIN tree.nodes :
                          tree'.nodes[k]
                            = IF k = id.index + 1
                              THEN Some([tree.nodes[k][1] EXCEPT
                                           !.desc.compatible = last'.msg[1].body,
                                           !.state = "Ready"])
                              ELSE tree.nodes[k]
           ELSE last'.res = "InvalidArgs" /\ ~last'.changed ]_vars

----------------------------------------------------------------------------
(* Properties of mounting and reporting *)

\* An old node after a mount: the same but for children appended at the end.
GrownOnly(old, new, added) ==
    /\ [new EXCEPT !.children = old.children] = old
    /\ Len(new.children) >= Len(old.children)
    /\ SubSeq(new.children, 1, Len(old.children)) = old.children
    /\ \A j \in (Len(old.children) + 1)..Len(new.children) : new.children[j] \in added

\* C28: after a successful mount_subtree(mount_point, nodes) exactly one
\* new node exists per list element, created in list order and Ready; the
\* node of element i has parent mount_point when its parent field is
\* usize::MAX and else the node created for the element at that index; no
\* node that existed before is changed, except that children lists grow.
MountCreatesSubtree ==
    [][ (last'.op = "mount_subtree" /\ last'.res = "Ok")
        => LET ns == last'.nodes
               made == last'.made
               added == { made[k].id : k \in DOMAIN made }
           IN  /\ Len(made) = Len(ns)
               /\ Cardinality(LiveNodes(tree')) = Cardinality(LiveNodes(tree)) + Len(ns)
               /\ \A k \in DOMAIN made :
                     /\ ~contains(tree, made[k].id)
                     /\ contains(tree', made[k].id)
                     /\ \A j \in DOMAIN made : j < k => made[j].id.index < made[k].id.index
                     /\ LET n == get_node(tree', made[k].id)[1]
                        IN  /\ n.desc = ns[k].desc
                            /\ n.state = "Ready"
                            /\ n.parent = Some(IF ns[k].parent = USIZE_MAX
                                               THEN last'.mount[1]
                                               ELSE made[ns[k].parent + 1].id)
                            /\ Occurrences(get_node(tree', n.parent[1])[1].children,
                                           n.id) = 1
               /\ \A n \in LiveNodes(tree) :
                     /\ contains(tree', n.id)
                     /\ GrownOnly(n, get_node(tree', n.id)[1], added) ]_vars

\* A two-element list was mounted whose second element hangs under the
\* first, and the first under the mount point.
MountCreatesSubtreeWitness ==
    /\ last.op = "mount_subtree" /\ last.res = "Ok"
    /\ Len(last.nodes) = 2
    /\ last.nodes[1].parent = USIZE_MAX
    /\ last.nodes[2].parent = 0
    /\ get_node(tree, last.made[2].id)[1].parent = Some(last.made[1].id)
    /\ get_node(tree, last.mount[1])[1].children = << last.made[1].id >>

----------------------------------------------------------------------------
(* Properties of the names register_logic assigns *)

\* The prefix of the counted variants' names.
NamePrefix(kind) ==
    CASE kind = "RawBlock" -> "disk"
      [] kind = "Net" -> "net"
      [] kind = "Fb" -> "fb"
      [] kind = "Uart" -> "uart"
      [] kind = "Input" -> "input"
      [] kind = "Gpio" -> "gpio"
      [] kind = "Thermal" -> "thermal"
      [] kind = "Battery" -> "battery"
      [] kind = "Timer" -> "timer"

\* Entries registered before entry i (ids are handed out in rising order
\* and entries are never removed) of the variant of entry i.
EarlierOfVariant(devices, i) ==
    { j \in DOMAIN devices :
        j < i /\ devices[j].desc.dev_type.kind = devices[i].desc.dev_type.kind }

\* The name the variant rule gives entry i.
NameByVariant(devices, i) ==
    LET d == devices[i].desc
    IN  CASE d.dev_type.kind = "Platform" -> "platform"
          [] d.dev_type.kind \in {"Block", "Volume"} ->
               d.parent_name \o "p" \o
               ToString(Cardinality({ j \in DOMAIN devices :
                                        /\ j < i
                                        /\ devices[j].desc.dev_type.kind = "Block"
                                        /\ devices[j].desc.parent_name = d.parent_name })
                        + 1)
          [] OTHER -> NamePrefix(d.dev_type.kind) \o
                      ToString(Cardinality(EarlierOfVariant(devices, i)))

\* C30: every registered logical device is named by its variant: the
\* counted variants get their prefix and the number of earlier
\* registrations of the variant, Platform gets exactly "platform", Block
\* and Volume get parent_name, "p" and one more than the number of Block
\* entries registered before under the same parent_name.
NamedByVariant ==
    \A i \in DOMAIN reg.logical_devices :
        reg.logical_devices[i].name = NameByVariant(reg.logical_devices, i)

\* The same without the Platform variant.
NamedByVariantButPlatform ==
    \A i \in DOMAIN reg.logical_devices :
        reg.logical_devices[i].desc.dev_type.kind # "Platform"
        => reg.logical_devices[i].name = NameByVariant(reg.logical_devices, i)

----------------------------------------------------------------------------
(* Properties of the order of starting after REPORT (SpecShape) *)

\* The ids of the spawn requests of a handler that are for the given nodes,
\* in the order the requests were made.
RECURSIVE StartedAmong(_, _)
StartedAmong(spawns, ids) ==
    IF spawns = << >> THEN << >>
    ELSE (IF Head(spawns).id \in ids THEN << Head(spawns).id >> ELSE << >>)
         \o StartedAmong(Tail(spawns), ids)

\* The made nodes a manifest entry matches, in list order.
RECURSIVE MatchedMade(_, _)
MatchedMade(cfg, made) ==
    IF made = << >> THEN << >>
    ELSE (IF match_driver(cfg, Head(made).desc.name, Head(made).desc.compatible) # None
          THEN << Head(made).id >> ELSE << >>)
         \o MatchedMade(cfg, Tail(made))

\* C29: after a REPORT, the drivers of the newly mounted nodes are started
\* in insertion order, the order of the elements of the reported list, for
\* every shape of reported subtree.
StartedInListOrder ==
    (last.op = "report" /\ last.res = "Ok")
    => StartedAmong(last.spawns, { last.made[k].id : k \in DOMAIN last.made })
         = MatchedMade(config, last.made)

\* The same for the lists of at most two elements.
StartedInListOrderShort ==
    (last.op = "report" /\ last.res = "Ok" /\ Len(last.nodes) <= 2)
    => StartedAmong(last.spawns, { last.made[k].id : k \in DOMAIN last.made })
         = MatchedMade(config, last.made)

----------------------------------------------------------------------------
(* Properties of interrupt delivery (SpecIrq) *)

\* The acks among the requests of a handled message.
Acks(l) == SelectSeq(l.reqs, LAMBDA q : q.kind = "ack")

IsNotify(l) == Served(l) /\ l.msg[1].proto = "KERNEL" /\ l.msg[1].method = "NOTIFY"

\* C31: once a driver has acquired interrupt n through GET_IRQ, a later
\* (KERNEL, NOTIFY) with badge n leads to exactly one ack, on the handler
\* capability obtained for n (here: the notification handled right after
\* the acquisition); a NOTIFY for a number never acquired leads to no ack.
NotifyAcksAcquired ==
    [][ /\ (/\ IsServed(last, "GET_IRQ") /\ last.res = "Ok"
             /\ IsNotify(last') /\ last'.badge = last.reqs[1].id)
            => Acks(last') = << AckReq(last.reqs[1].id, last.reqs[1].slot) >>
        /\ (IsNotify(last') /\ last'.badge = StrayIrq) => Acks(last') = << >> ]_vars

\* The second half alone: a notification for the stray number is not acked.
StrayNotifyNotAcked ==
    [][ (IsNotify(last') /\ last'.badge = StrayIrq) => Acks(last') = << >> ]_vars

\* A driver has acquired the device's interrupt and the next message is the
\* notification of that interrupt.
NotifyAfterAcquireReached ==
    [][ ~(/\ IsServed(last, "GET_IRQ") /\ last.res = "Ok"
          /\ IsNotify(last') /\ last'.badge = last.reqs[1].id) ]_vars

----------------------------------------------------------------------------
(* Properties of the receive window after REGISTER_LOGIC (SpecKeep) *)

\* The entry of the last registration references the slot the capability
\* was put in, and no other entry references that slot.
KeptInFreshSlot ==
    /\ last.before \in DOMAIN reg.logical_devices
    /\ last.recv[1].slot = Some(reg.logical_devices[last.before].ep)
    /\ \A j \in DOMAIN reg.logical_devices :
          j # last.before => reg.logical_devices[j].ep # reg.logical_devices[last.before].ep

\* C32: after a successful REGISTER_LOGIC the incoming endpoint capability
\* is held in a freshly allocated managed slot that the registry entry
\* references, and the receive window is free for the next message, with
\* desc.badge Some(b) (mint) as with None (move).
ReceiveWindowFreed ==
    (last.op = "register_logic" /\ last.res = "Ok")
    => /\ KeptInFreshSlot
       /\ last.recv[1].how = (IF last.desc[1].badge # None THEN "mint" ELSE "move")
       /\ last.recv[1].window = "empty"

\* The same for descriptors without a badge.
ReceiveWindowFreedByMove ==
    (last.op = "register_logic" /\ last.res = "Ok" /\ last.desc[1].badge = None)
    => /\ KeptInFreshSlot
       /\ last.recv[1].how = "move"
       /\ last.recv[1].window = "empty"

\* With a badge the capability is kept as well; only the window differs.
BadgedEndpointKept ==
    (last.op = "register_logic" /\ last.res = "Ok" /\ last.desc[1].badge # None)
    => /\ KeptInFreshSlot
       /\ last.recv[1].how = "mint"

----------------------------------------------------------------------------
(* Properties of the link from physical nodes to logic devices (SpecParent) *)

\* The live nodes of a tree with the given name.
NodesNamed(t, name) == { n \in LiveNodes(t) : n.desc.name = name }

\* The last message was a REGISTER_LOGIC decoded and handled with success.
Registered(l) == IsServed(l, "REGISTER_LOGIC") /\ l.res = "Ok"

\* C33: after a successful REGISTER_LOGIC whose parent_name is the name of
\* a physical node, that node's logical_devices holds the id of the new
\* entry; when parent_name names no node, no node's logical_devices
\* changes.
ParentNodeLinked ==
    [][ Registered(last')
        => LET pn == last'.msg[1].body.parent_name
               id == reg.next_logic_id
           IN  /\ id \in DOMAIN reg'.logical_devices
               /\ \A n \in NodesNamed(tree, pn) :
                     \E k \in DOMAIN get_node(tree', n.id)[1].logical_devices :
                        get_node(tree', n.id)[1].logical_devices[k] = id
               /\ NodesNamed(tree, pn) = {}
                  => \A n \in LiveNodes(tree) :
                        get_node(tree', n.id)[1].logical_devices = n.logical_devices ]_vars

\* The second half alone: without a node of that name nothing is linked.
UnresolvedParentLinksNothing ==
    [][ (Registered(last') /\ NodesNamed(tree, last'.msg[1].body.parent_name) = {})
        => \A n \in LiveNodes(tree) :
              get_node(tree', n.id)[1].logical_devices = n.logical_devices ]_vars

\* A device was registered under the name of the platform's root node.
ParentResolvedReached ==
    ~(Registered(last) /\ last.msg[1].body.parent_name = "acpi"
        /\ NodesNamed(tree, "acpi") # {})

\* No handler ever writes a node's logical_devices.
NodeLogicalDevicesEmpty ==
    \A n \in LiveNodes(tree) : n.logical_devices = << >>

----------------------------------------------------------------------------
(* Properties of the shape of the tree and of its traversal (SpecTree) *)

\* Following parent links from id reaches a parentless node within fuel steps.
RECURSIVE ReachesTop(_, _, _)
ReachesTop(t, id, fuel) ==
    LET n == get_node(t, id)
    IN  IF n = None THEN FALSE
        ELSE IF n[1].parent = None THEN TRUE
        ELSE IF fuel = 0 THEN FALSE
        ELSE ReachesTop(t, n[1].parent[1], fuel - 1)

\* id has top on its chain of parents (or is top) within fuel steps.
RECURSIVE HasAncestor(_, _, _, _)
HasAncestor(t, id, top, fuel) ==
    LET n == get_node(t, id)
    IN  IF id = top THEN TRUE
        ELSE IF n = None \/ n[1].parent = None \/ fuel = 0 THEN FALSE
        ELSE HasAncestor(t, n[1].parent[1], top, fuel - 1)

\* C34: the device tree never contains a cycle: from every node, following
\* parent links reaches a parentless node in finitely many steps; hence
\* the breadth-first traversal of scan_subtree from the root terminates
\* and visits every node reachable from the root exactly once.
TreeAcyclicScanTotal ==
    /\ \A n \in LiveNodes(tree) : ReachesTop(tree, n.id, Len(tree.nodes))
    /\ tree.root # None
       => LET v == ScanVisits(tree, << tree.root[1] >>, << >>, Len(tree.nodes))
          IN  /\ v.done
              /\ \A i, j \in DOMAIN v.visited : v.visited[i] = v.visited[j] => i = j
              /\ { v.visited[i] : i \in DOMAIN v.visited }
                   = { n.id : n \in { m \in LiveNodes(tree) :
                                        HasAncestor(tree, m.id, tree.root[1],
                                                    Len(tree.nodes)) } }

\* A root with a child and a grandchild, and the traversal reaches the
\* grandchild last.
TreeAcyclicScanWitness ==
    /\ tree.root # None
    /\ Len(tree.nodes) = 3
    /\ \E n \in LiveNodes(tree) :
          /\ n.parent # None /\ n.parent[1] # tree.root[1]
          /\ ScanVisits(tree, << tree.root[1] >>, << >>, 3).visited
               = << tree.root[1], n.parent[1], n.id >>

----------------------------------------------------------------------------
(* Properties of rejected requests *)

\* C35: a REPORT that is answered with an error (unbound badge, or
\* InvalidArgs from a dangling parent reference at any position of the
\* list) leaves the device tree exactly as it was before the request: no
\* element of the rejected list remains mounted.
RejectedReportKeepsTree ==
    [][ (last'.op = "report" /\ last'.res # "Ok") => tree' = tree ]_vars

\* The same for the two rejections that happen before anything is mounted:
\* an unbound badge, and a dangling reference in the first element.
EarlyRejectedReportKeepsTree ==
    [][ (/\ last'.op = "report" /\ last'.res # "Ok"
         /\ \/ last'.badge \notin DOMAIN pids
            \/ (last'.nodes # << >> /\ last'.nodes[1].parent # USIZE_MAX))
        => tree' = tree ]_vars

\* C36: a REGISTER_LOGIC that is answered with an error (no endpoint
\* capability, slot allocation failure, or a failure while probing the
\* partitions of a RawBlock device) leaves the logic registry, the logic id
\* counter and the per-type name counters exactly as they were.
RejectedRegisterKeepsRegistry ==
    [][ (last'.op = "register_logic" /\ last'.res # "Ok") => reg' = reg ]_vars

\* The same for the errors of the endpoint handling, which come before the
\* name is assigned.
EarlyRejectedRegisterKeepsRegistry ==
    [][ (last'.op = "register_logic"
         /\ \/ last'.res \in {"InvalidArgs", "OutOfMemory"} /\ last'.allocs = 0
            \/ last'.res = "CapFailed" /\ last'.allocs = 1)
        => reg' = reg ]_vars

----------------------------------------------------------------------------
(* Properties of scans in which a spawn fails (SpecLoop) *)

\* The last message was a scan request: SCAN_PLATFORM, REPORT or UPDATE.
IsScanRequest(l) ==
    IsServed(l, "SCAN_PLATFORM") \/ IsServed(l, "REPORT") \/ IsServed(l, "UPDATE")

\* The nodes of the last handler's spawn requests, in order.
SpawnedIds(l) == [k \in DOMAIN l.spawns |-> l.spawns[k].id]

\* C37: a driver spawn failure during a scan does not stop the scan and
\* does not fail the request: every node whose spawn failed is Error, the
\* others the handler started are Running; no node under the scan's
\* start is left Ready with a matching driver; and SCAN_PLATFORM, REPORT
\* or UPDATE is answered Ok.
SpawnFailureKeepsScanning ==
    [][ (IsScanRequest(last') /\ last'.spawns # << >>)
        => LET m == last'.msg[1]
               start == IF m.method = "SCAN_PLATFORM" THEN tree.root[1] ELSE pids[m.badge]
           IN  /\ last'.res = "Ok"
               /\ last'.replies = << ReplyMsg("ok", << >>) >>
               /\ \A k \in DOMAIN last'.spawns :
                     get_node(tree', last'.spawns[k].id)[1].state
                       = (IF last'.ret[k] = 0 THEN "Error" ELSE "Running")
               /\ \A n \in LiveNodes(tree') :
                     (HasAncestor(tree', n.id, start, Len(tree'.nodes))
                        /\ n.state = "Ready")
                     => match_driver(config, n.desc.name, n.desc.compatible) = None ]_vars

\* A scan request in which the first spawn failed and a later one succeeded.
SpawnFailureWitness ==
    /\ IsScanRequest(last) /\ Len(last.spawns) >= 2
    /\ last.ret[1] = 0 /\ last.ret[2] > 0
    /\ get_node(tree, last.spawns[1].id)[1].state = "Error"
    /\ get_node(tree, last.spawns[2].id)[1].state = "Running"
    /\ last.res = "Ok"

----------------------------------------------------------------------------
(* Properties of the badge after UPDATE (SpecLoop) *)

\* A request of a driver about its own node, decoded.
IsDriverRequest(l) ==
    /\ Served(l)
    /\ l.msg[1].proto = "DEVICE"
    /\ l.msg[1].method \in {"GET_MMIO", "GET_IRQ", "REPORT", "UPDATE"}
    /\ l.msg[1].body_ok

\* C38: after UPDATE from badge b is handled, b is no longer a key of pids,
\* unless the process manager returned b again as the pid of a spawn;
\* GET_MMIO, GET_IRQ, REPORT and UPDATE requests that carry a badge that is
\* no key of pids fail with InvalidArgs; and when no manifest driver
\* matches the new compatible list the node stays Ready with no badge
\* bound to it.
UpdateUnbindsBadge ==
    [][ /\ (IsServed(last', "UPDATE") /\ last'.msg[1].body_ok)
            => LET b == last'.msg[1].badge
               IN  /\ b \in DOMAIN pids'
                      => \E k \in DOMAIN last'.spawns : last'.ret[k] = b
                   /\ (/\ b \in DOMAIN pids
                       /\ match_driver(config, get_node(tree, pids[b])[1].desc.name,
                                       last'.msg[1].body) = None)
                      => /\ get_node(tree', pids[b])[1].state = "Ready"
                         /\ get_node(tree', pids[b])[1].desc.compatible
                              = last'.msg[1].body
                         /\ \A k \in DOMAIN pids' : pids'[k] # pids[b]
        /\ (IsDriverRequest(last') /\ last'.msg[1].badge \notin DOMAIN pids)
            => (last'.res = "InvalidArgs" /\ tree' = tree /\ pids' = pids) ]_vars

\* An UPDATE from a bound badge left its node Ready without a driver, and
\* the badge is no key of pids any more.
UpdateUnbindsBadgeWitness ==
    /\ IsServed(last, "UPDATE") /\ last.res = "Ok"
    /\ last.spawns = << >>
    /\ last.badge \notin DOMAIN pids
    /\ \E n \in LiveNodes(tree) :
          /\ n.state = "Ready" /\ n.desc.compatible = last.msg[1].body
          /\ match_driver(config, n.desc.name, n.desc.compatible) = None
          /\ \A k \in DOMAIN pids : pids[k] # n.id

----------------------------------------------------------------------------
(* Properties of resource isolation (SpecBroker) *)

\* C39: a successful GET_MMIO(index) from badge b returns the base address
\* and size of exactly desc.mmio[index] of the node pids[b], with the
\* capability requested for that base address, and a successful
\* GET_IRQ(index) the handler requested for exactly desc.irq[index] of
\* that node: in no reachable step does a driver obtain a region or an
\* interrupt that the descriptor of the node it is bound to does not list.
ResourcesOfOwnNodeOnly ==
    [][ /\ (last'.op = "get_mmio" /\ last'.res = "Ok")
            => /\ last'.badge \in DOMAIN pids
               /\ LET d == get_node(tree, pids[last'.badge])[1].desc
                  IN  /\ last'.idx < Len(d.mmio)
                      /\ last'.ret[2] = d.mmio[last'.idx + 1].base_addr
                      /\ last'.ret[3] = d.mmio[last'.idx + 1].size
                      /\ Len(last'.reqs) = 1
                      /\ last'.reqs[1].kind \in {"get_cap_mmio", "get_frame"}
                      /\ last'.reqs[1].id = d.mmio[last'.idx + 1].base_addr
                      /\ last'.reqs[1].slot = last'.ret[1]
        /\ (last'.op = "get_irq" /\ last'.res = "Ok")
            => /\ last'.badge \in DOMAIN pids
               /\ LET d == get_node(tree, pids[last'.badge])[1].desc
                  IN  /\ last'.idx < Len(d.irq)
                      /\ Len(last'.reqs) = 1
                      /\ last'.reqs[1].kind = "get_cap_irq"
                      /\ last'.reqs[1].id = d.irq[last'.idx + 1]
                      /\ last'.reqs[1].slot = last'.ret[1] ]_vars

\* A driver bound to a reported device got that device's region while the
\* root node lists another one.
ResourcesOfOwnNodeWitness ==
    /\ last.op = "get_mmio" /\ last.res = "Ok"
    /\ last.badge \in DOMAIN pids
    /\ pids[last.badge] # tree.root[1]
    /\ last.ret[2] = get_node(tree, pids[last.badge])[1].desc.mmio[1].base_addr
    /\ get_node(tree, tree.root[1])[1].desc.mmio # << >>
    /\ get_node(tree, tree.root[1])[1].desc.mmio[1].base_addr # last.ret[2]

----------------------------------------------------------------------------
(* Properties of the binding of badges to nodes (SpecLoop) *)

\* C40: in every state between message handlings each device node is the
\* value of at most one key of pids: a node is never bound to two driver
\* badges at once, across any sequence of scans, reports and updates
\* (whichever pids the process manager returns, so in particular when it
\* never returns the pid of a live process).
NodeBoundOnce ==
    \A a, b \in DOMAIN pids : pids[a] = pids[b] => a = b

\* Two nodes are bound to two badges after an UPDATE whose node was started
\* again.
NodeBoundOnceWitness ==
    /\ IsServed(last, "UPDATE") /\ last.res = "Ok"
    /\ Len(last.spawns) = 1 /\ last.ret[1] > 0
    /\ Cardinality(DOMAIN pids) = 2
    /\ pids[last.ret[1]] = last.spawns[1].id

====
